---------------------------- MODULE Spec2Model ----------------------------
(***************************************************************************)
(* A model of UnifiedJSPAnalyzer (src/jsp-analyzer.py): the per-file fact  *)
(* extraction, build_dependency_graph, calculate_coupling_metrics and      *)
(* compute_clusters_and_plot.                                              *)
(*                                                                         *)
(* Strings are sequences of one-character strings, so that the path and    *)
(* substring operations of the code are computed character by character.   *)
(* Numbers with two decimals (instability, the composite complexity) are   *)
(* held in hundredths; the weights of the composite in thousandths.        *)
(***************************************************************************)
EXTENDS Integers, Sequences, FiniteSets, TLC

(***************************************************************************)
(* Bounds of the model.                                                    *)
(***************************************************************************)
\* the most files one project holds
MaxFiles == 3
\* the most files of one project that cannot be read or whose extraction raises
MaxFailures == 1

\* the most files of a project made of the scenario files
MaxScenarioFiles == 4

\* the most runs of analyze_project on one analyzer
MaxRuns == 2

\* the nodes of the graphs calculate_coupling_metrics is applied to
MaxGraphNodes == 3

(***************************************************************************)
(* String operations (str methods and os.path on POSIX).                   *)
(***************************************************************************)
SLASH == "/"

Min(a, b) == IF a <= b THEN a ELSE b

Max(a, b) == IF a >= b THEN a ELSE b

\* s.endswith(t)
EndsWith(s, t) ==
    /\ Len(t) <= Len(s)
    /\ SubSeq(s, Len(s) - Len(t) + 1, Len(s)) = t

\* s.startswith(t)
StartsWith(s, t) ==
    /\ Len(t) <= Len(s)
    /\ SubSeq(s, 1, Len(t)) = t

\* t in s
Contains(s, t) ==
    \E k \in 0..(Len(s) - Len(t)) : SubSeq(s, k + 1, k + Len(t)) = t

\* s.find(c) + 1 for a character c: the first position of c, 0 when absent
IndexOf(s, c) ==
    IF \E k \in 1..Len(s) : s[k] = c
    THEN CHOOSE k \in 1..Len(s) : s[k] = c /\ \A m \in 1..(k - 1) : s[m] # c
    ELSE 0

\* s.rfind(c) + 1 for a character c: the last position of c, 0 when absent
LastIndexOf(s, c) ==
    IF \E k \in 1..Len(s) : s[k] = c
    THEN CHOOSE k \in 1..Len(s) : s[k] = c /\ \A m \in (k + 1)..Len(s) : s[m] # c
    ELSE 0

\* s.replace(a, b) for characters a, b
ReplaceChar(s, a, b) == [k \in 1..Len(s) |-> IF s[k] = a THEN b ELSE s[k]]

\* s.lstrip(c)
LStrip(s, c) ==
    IF \A k \in 1..Len(s) : s[k] = c
    THEN << >>
    ELSE LET f == CHOOSE k \in 1..Len(s) : s[k] # c /\ \A m \in 1..(k - 1) : s[m] = c
         IN  SubSeq(s, f, Len(s))

\* s.rstrip(c)
RStrip(s, c) ==
    IF \A k \in 1..Len(s) : s[k] = c
    THEN << >>
    ELSE LET l == CHOOSE k \in 1..Len(s) : s[k] # c /\ \A m \in (k + 1)..Len(s) : s[m] = c
         IN  SubSeq(s, 1, l)

\* s.split(c, 1)[0]
SplitFirst(s, c) ==
    IF IndexOf(s, c) = 0 THEN s ELSE SubSeq(s, 1, IndexOf(s, c) - 1)

\* s.split(c)
RECURSIVE Split(_, _)
Split(s, c) ==
    IF IndexOf(s, c) = 0
    THEN << s >>
    ELSE << SubSeq(s, 1, IndexOf(s, c) - 1) >>
            \o Split(SubSeq(s, IndexOf(s, c) + 1, Len(s)), c)

\* s.split(c)[-1]
SplitLast(s, c) == SubSeq(s, LastIndexOf(s, c) + 1, Len(s))

\* c.join(parts)
RECURSIVE Join(_, _)
Join(parts, c) ==
    IF Len(parts) = 0 THEN << >>
    ELSE IF Len(parts) = 1 THEN parts[1]
    ELSE parts[1] \o << c >> \o Join(Tail(parts), c)

\* os.path.basename(p)
Basename(p) == SubSeq(p, LastIndexOf(p, SLASH) + 1, Len(p))

\* os.path.dirname(p)
Dirname(p) ==
    LET head == SubSeq(p, 1, LastIndexOf(p, SLASH))
    IN  IF head # << >> /\ \E k \in 1..Len(head) : head[k] # SLASH
        THEN RStrip(head, SLASH)
        ELSE head

\* os.path.join(a, b)
PathJoin(a, b) ==
    IF StartsWith(b, << SLASH >>) THEN b
    ELSE IF a = << >> \/ EndsWith(a, << SLASH >>) THEN a \o b
    ELSE a \o << SLASH >> \o b

\* the component loop of os.path.normpath: comps still to read, new_comps so far
RECURSIVE NormComps(_, _, _)
NormComps(comps, new_comps, initial_slashes) ==
    IF comps = << >> THEN new_comps
    ELSE LET comp == Head(comps)
             dotdot == << ".", "." >>
         IN  IF comp = << >> \/ comp = << "." >>
             THEN NormComps(Tail(comps), new_comps, initial_slashes)
             ELSE IF \/ comp # dotdot
                     \/ (initial_slashes = 0 /\ new_comps = << >>)
                     \/ (new_comps # << >> /\ new_comps[Len(new_comps)] = dotdot)
             THEN NormComps(Tail(comps), Append(new_comps, comp), initial_slashes)
             ELSE IF new_comps # << >>
             THEN NormComps(Tail(comps), SubSeq(new_comps, 1, Len(new_comps) - 1),
                            initial_slashes)
             ELSE NormComps(Tail(comps), new_comps, initial_slashes)

\* os.path.normpath(path)
NormPath(path) ==
    IF path = << >> THEN << "." >>
    ELSE LET initial_slashes ==
                 IF ~StartsWith(path, << SLASH >>) THEN 0
                 ELSE IF StartsWith(path, << SLASH, SLASH >>)
                         /\ ~StartsWith(path, << SLASH, SLASH, SLASH >>) THEN 2
                 ELSE 1
             body == Join(NormComps(Split(path, SLASH), << >>, initial_slashes), SLASH)
             res == [k \in 1..initial_slashes |-> SLASH] \o body
         IN  IF res = << >> THEN << "." >> ELSE res


(***************************************************************************)
(* Dictionaries.  A dict keyed by file id whose insertion order the code   *)
(* never reads is a function; jsp_files, whose iteration order decides     *)
(* which file a reference resolves to, is the sequence of its items.       *)
(***************************************************************************)
\* Python's None (a file id is never the empty string)
None == << >>

EmptyDict == << >>

\* d[k] of a defaultdict(list), without inserting the key
Get(d, k) == IF k \in DOMAIN d THEN d[k] ELSE << >>

\* d[k] = v
Put(d, k, v) == [x \in (DOMAIN d) \cup {k} |-> IF x = k THEN v ELSE d[x]]

\* d[k].append(v) of a defaultdict(list)
AppendTo(d, k, v) == Put(d, k, Append(Get(d, k), v))

\* d[k].extend(vs) of a defaultdict(list)
ExtendAt(d, k, vs) == Put(d, k, Get(d, k) \o vs)

\* the keys of jsp_files
FileIds(files) == {files[k].id : k \in 1..Len(files)}

\* jsp_files.get(file_id, {}).get('path', '')
PathOf(files, file_id) ==
    IF file_id \in FileIds(files)
    THEN (CHOOSE e \in {files[k] : k \in 1..Len(files)} : e.id = file_id).path
    ELSE << >>

\* jsp_files[file_id] = info: a new key goes last, an old key keeps its place
SetFile(files, file_id, path) ==
    IF file_id \in FileIds(files)
    THEN [k \in 1..Len(files) |->
            IF files[k].id = file_id THEN [id |-> file_id, path |-> path] ELSE files[k]]
    ELSE Append(files, [id |-> file_id, path |-> path])

\* the paths of jsp_files
PathsOf(files) == {files[k].path : k \in 1..Len(files)}

\* the id of the first item of jsp_files, in iteration order, whose path is
\* one of paths (the paths that pass the test of a loop); None when there is
\* none
FirstFile(files, paths) ==
    IF \E k \in 1..Len(files) : files[k].path \in paths
    THEN files[CHOOSE k \in 1..Len(files) :
                  /\ files[k].path \in paths
                  /\ \A m \in 1..(k - 1) : files[m].path \notin paths].id
    ELSE None

\* file_id = relative_path.replace('\\', '/').replace('.', '_')
FileId(relative_path) == ReplaceChar(ReplaceChar(relative_path, "\\", SLASH), ".", "_")

(***************************************************************************)
(* Resolution of an include (build_dependency_graph, the includes loop).   *)
(***************************************************************************)
\* the raw target is skipped as dynamic
IsDynamic(raw_target) ==
    Contains(raw_target, << "$", "{" >>) \/ Contains(raw_target, << "<", "%" >>)

\* normalized_target: the query string stripped, the path normalized
NormalizedTarget(raw_target) ==
    ReplaceChar(NormPath(SplitFirst(raw_target, "?")), "\\", SLASH)

\* the candidate paths of an include of raw_target found in file_id
Candidates(files, file_id, raw_target) ==
    LET normalized_target == NormalizedTarget(raw_target)
        caller_path == PathOf(files, file_id)
    IN  {normalized_target, LStrip(normalized_target, SLASH), Basename(normalized_target)}
        \cup (IF caller_path # << >> /\ ~StartsWith(normalized_target, << SLASH >>)
              THEN {ReplaceChar(NormPath(PathJoin(Dirname(caller_path), normalized_target)),
                                "\\", SLASH)}
              ELSE {})

\* the test of one registry path against the candidates
PathMatches(target_path, candidates) ==
    /\ target_path # << >>
    /\ LET tpath_norm == ReplaceChar(target_path, "\\", SLASH)
           tpath_norm_strip == LStrip(tpath_norm, SLASH)
       IN  \E cand \in candidates :
              \/ EndsWith(tpath_norm, cand)
              \/ EndsWith(cand, tpath_norm)
              \/ EndsWith(tpath_norm_strip, cand)
              \/ Basename(tpath_norm) = cand

\* a faulty first loop: it gives the path of the file found, not its id
ExactMatchPath(files, file_id, raw_target) ==
    LET candidates == Candidates(files, file_id, raw_target)
        Test(p) == PathMatches(p, candidates)
        hit == FirstFile(files, {p \in PathsOf(files) : Test(p)})
    IN  IF hit = None THEN None ELSE PathOf(files, hit)

\* the first loop over jsp_files: the first file matching a candidate
ExactMatch(files, file_id, raw_target) ==
    LET candidates == Candidates(files, file_id, raw_target)
        Test(p) == PathMatches(p, candidates)
    IN  FirstFile(files, {p \in PathsOf(files) : Test(p)})

\* the second loop over jsp_files: the first file with the target's basename
BasenameFallback(files, raw_target) ==
    LET bt == Basename(NormalizedTarget(raw_target))
        Test(p) == Basename(p) = bt
    IN  FirstFile(files, {p \in PathsOf(files) : Test(p)})

\* a faulty includes loop without the test for a dynamic target
IncludeRecordsResolvingDynamic(files, file_id, type, raw_target) ==
    IF raw_target = << >> THEN << >>
    ELSE LET exact == ExactMatch(files, file_id, raw_target)
             fallback == BasenameFallback(files, raw_target)
         IN  IF exact # None
             THEN << [target |-> exact, type |-> type, dynamic |-> FALSE,
                      raw |-> raw_target, note |-> ""] >>
             ELSE IF fallback # None
             THEN << [target |-> fallback, type |-> type, dynamic |-> FALSE,
                      raw |-> raw_target, note |-> "basename_fallback"] >>
             ELSE << >>

\* what processing one include appends to dependencies[file_id]: no record
\* or one; a record with a target comes with the edge file_id -> target
IncludeRecords(files, file_id, type, raw_target) ==
    IF raw_target = << >> THEN << >>
    ELSE IF IsDynamic(raw_target)
    THEN << [target |-> None, type |-> type, dynamic |-> TRUE, raw |-> raw_target,
             note |-> ""] >>
    ELSE LET exact == ExactMatch(files, file_id, raw_target)
             fallback == BasenameFallback(files, raw_target)
         IN  IF exact # None
             THEN << [target |-> exact, type |-> type, dynamic |-> FALSE,
                      raw |-> raw_target, note |-> ""] >>
             ELSE IF fallback # None
             THEN << [target |-> fallback, type |-> type, dynamic |-> FALSE,
                      raw |-> raw_target, note |-> "basename_fallback"] >>
             ELSE << >>

(***************************************************************************)
(* Resolution of a form action (the forms loop).                           *)
(***************************************************************************)
\* action.startswith(('javascript:', 'http:', 'https:'))
IsExternalAction(action) ==
    \/ StartsWith(action, << "j", "a", "v", "a", "s", "c", "r", "i", "p", "t", ":" >>)
    \/ StartsWith(action, << "h", "t", "t", "p", ":" >>)
    \/ StartsWith(action, << "h", "t", "t", "p", "s", ":" >>)

\* the first file whose path ends with the normalized action
FormMatch(files, action) ==
    LET normalized_action == ReplaceChar(NormPath(action), "\\", SLASH)
        Test(p) == EndsWith(p, normalized_action)
    IN  FirstFile(files, {p \in PathsOf(files) : Test(p)})

\* a faulty forms loop that searches the registry for every action
FormRecordsSearchingAll(files, action) ==
    IF action # << >> /\ FormMatch(files, action) # None
    THEN << [target |-> FormMatch(files, action), type |-> "form_action",
             dynamic |-> FALSE, raw |-> << >>, note |-> ""] >>
    ELSE << >>

\* what processing one form appends to dependencies[file_id]
FormRecords(files, action) ==
    IF action # << >> /\ ~IsExternalAction(action)
    THEN LET hit == FormMatch(files, action)
         IN  IF hit # None
             THEN << [target |-> hit, type |-> "form_action", dynamic |-> FALSE,
                      raw |-> << >>, note |-> ""] >>
             ELSE << >>
    ELSE << >>

(***************************************************************************)
(* Resolution of a custom tag (_resolve_tag_file and the tags loop).       *)
(***************************************************************************)
DOT_TAG == << ".", "t", "a", "g" >>

DOT_TAGX == << ".", "t", "a", "g", "x" >>

WEB_INF_TAGS ==
    << "/", "W", "E", "B", "-", "I", "N", "F", "/", "t", "a", "g", "s", "/" >>

\* candidates = [f"{tagname}.tag", f"{tagname}.tagx", tagname]
TagCandidates(tagname) == {tagname \o DOT_TAG, tagname \o DOT_TAGX, tagname}

\* the first loop of _resolve_tag_file: a candidate under /WEB-INF/tags/
TagDirMatch(files, tagname) ==
    LET Test(p) == Basename(p) \in TagCandidates(tagname) /\ Contains(p, WEB_INF_TAGS)
    IN  FirstFile(files, {p \in PathsOf(files) : Test(p)})

\* a faulty second loop that takes a file named as the tag only, without
\* the .tag and .tagx candidates
TagBasenameMatchBareName(files, tagname) ==
    FirstFile(files, {p \in PathsOf(files) : Basename(p) = tagname})

\* the second loop of _resolve_tag_file: a candidate anywhere
TagBasenameMatch(files, tagname) ==
    LET Test(p) == Basename(p) \in TagCandidates(tagname)
    IN  FirstFile(files, {p \in PathsOf(files) : Test(p)})

\* the third loop of _resolve_tag_file, for the taglib declarations that are
\* left: the first declaration with a uri under whose suffix a file lies
RECURSIVE TaglibMatch(_, _, _)
TaglibMatch(files, libs, tagname) ==
    IF libs = << >> THEN None
    ELSE LET uri == Head(libs).uri
             candidate_suffix == LStrip(SplitLast(uri, ":"), SLASH)
             Test(p) == \/ EndsWith(p, PathJoin(candidate_suffix, tagname \o DOT_TAG))
                        \/ EndsWith(p, PathJoin(candidate_suffix, tagname \o DOT_TAGX))
             hit == IF uri # << >> THEN FirstFile(files, {p \in PathsOf(files) : Test(p)}) ELSE None
         IN  IF hit # None THEN hit ELSE TaglibMatch(files, Tail(libs), tagname)

\* _resolve_tag_file(prefix, tagname, caller_file_id); prefix is not read
ResolveTagFile(files, libs_of, tagname, caller_file_id) ==
    LET in_tag_dir == TagDirMatch(files, tagname)
        by_basename == TagBasenameMatch(files, tagname)
    IN  IF in_tag_dir # None THEN in_tag_dir
        ELSE IF by_basename # None THEN by_basename
        ELSE IF caller_file_id \in DOMAIN libs_of
        THEN TaglibMatch(files, libs_of[caller_file_id], tagname)
        ELSE None

\* the loop of _resolve_tag_file that returns the file
TagMethod(files, libs_of, tagname, caller_file_id) ==
    IF TagDirMatch(files, tagname) # None THEN "tag_dir"
    ELSE IF TagBasenameMatch(files, tagname) # None THEN "basename"
    ELSE IF /\ caller_file_id \in DOMAIN libs_of
            /\ TaglibMatch(files, libs_of[caller_file_id], tagname) # None
    THEN "taglib_uri"
    ELSE "none"

\* what processing one custom tag usage appends to dependencies[file_id];
\* raw is the text '<prefix:tag', from which tag_prefix and tag_name are read
TagRecords(files, libs_of, file_id, usage) ==
    LET raw == << "<" >> \o usage.prefix \o << ":" >> \o usage.tag
        target_id == ResolveTagFile(files, libs_of, usage.tag, file_id)
        fallback == TagBasenameMatch(files, usage.tag)
    IN  IF target_id # None
        THEN << [target |-> target_id, type |-> "custom_tag", dynamic |-> FALSE,
                 raw |-> raw, note |-> ""] >>
        ELSE IF fallback # None
        THEN << [target |-> fallback, type |-> "custom_tag_fallback",
                 dynamic |-> FALSE, raw |-> raw, note |-> ""] >>
        ELSE << >>

(***************************************************************************)
(* The text of a file, as the occurrences the extraction regexes find:     *)
(*   incs      the include occurrences [type, target, commented], written  *)
(*             in the form both _extract_includes and _extract_scriptlets  *)
(*             match; commented: inside a JSP or HTML comment              *)
(*   taglibs   the taglib directives [prefix, uri]                         *)
(*   tags      the other '<prefix:tag' occurrences [prefix, tag]           *)
(*   forms     the action attribute of each form outside comments          *)
(*   scriptlets  per scriptlet [decision, logical, ternary, braces]: the   *)
(*             counts of keywords, of && and ||, of ?, and the braces of   *)
(*             the code in order                                           *)
(*   lines, el, html, script   the counts of lines, EL expressions, HTML   *)
(*             elements and script blocks                                  *)
(*   security  the number of matches of the security patterns              *)
(***************************************************************************)
S_a_jsp == << "a", ".", "j", "s", "p" >>

S_b_jsp == << "b", ".", "j", "s", "p" >>

S_c_b_jsp == << "c", "/", "b", ".", "j", "s", "p" >>

S_button_tag ==
    << "W", "E", "B", "-", "I", "N", "F", "/", "t", "a", "g", "s", "/", "u", "i", "/",
       "b", "u", "t", "t", "o", "n", ".", "t", "a", "g" >>

S_a_b_jsp == << "a", "_", "b", ".", "j", "s", "p" >>

S_a_dot_b_jsp == << "a", ".", "b", ".", "j", "s", "p" >>

\* a tag file of the same name outside WEB-INF/tags
S_c_button_tag == << "c", "/" >> \o Basename(S_button_tag)

\* the relative paths a project is made of
PathUniverse == {S_a_jsp, S_c_b_jsp, S_button_tag}

Inc(type, target, commented) ==
    [type |-> type, target |-> target, commented |-> commented]

NoText ==
    [incs |-> << >>, taglibs |-> << >>, tags |-> << >>, forms |-> << >>,
     scriptlets |-> << >>, lines |-> 1, el |-> 0, html |-> 0, script |-> 0,
     security |-> 0]

\* <%@ include file="b.jsp" %> and forms with action "b.jsp",
\* "javascript:go" and "no.do"
TextIncludeAndForms ==
    [NoText EXCEPT !.incs = << Inc("directive", S_b_jsp, FALSE) >>,
                   !.forms = << S_b_jsp,
                               << "j", "a", "v", "a", "s", "c", "r", "i", "p", "t", ":", "g", "o" >>,
                               << "n", "o", ".", "d", "o" >> >>,
                   !.lines = 10, !.el = 2, !.html = 18, !.script = 1]

\* <jsp:include page="/a.jsp?x=1"/> and <%@ include file="a.jsp" %>, one scriptlet
TextIncludeATwice ==
    [NoText EXCEPT !.incs = << Inc("action", << "/", "a", ".", "j", "s", "p", "?", "x" >>, FALSE),
                              Inc("directive", S_a_jsp, FALSE) >>,
                   !.scriptlets = << [decision |-> 1, logical |-> 0, ternary |-> 0,
                                      braces |-> << "{", "}" >>] >>,
                   !.lines = 50, !.html = 12]

\* <c:import url="${u}/a.jsp"/>, <%@ include file="zz.jsp" %>, a commented
\* <%@ include file="c/b.jsp" %>, and a <c:if>
TextDynamicAndMissing ==
    [NoText EXCEPT !.incs = << Inc("c:import", << "$", "{", "u", "}", "/", "a", ".", "j", "s", "p" >>, FALSE),
                              Inc("directive", << "z", "z", ".", "j", "s", "p" >>, FALSE),
                              Inc("directive", S_c_b_jsp, TRUE) >>,
                   !.tags = << [prefix |-> << "c" >>, tag |-> << "i", "f" >>] >>,
                   !.lines = 50, !.el = 1]

\* <%@ taglib prefix="ui" uri="/WEB-INF/tags/ui" %>, <ui:button>, <x:nope>
\* and <my:nope>, a form with action "a.jsp", three scriptlets and one security
\* pattern
TextTags ==
    [NoText EXCEPT !.forms = << S_a_jsp >>,
                   !.taglibs = << [prefix |-> << "u", "i" >>,
                                  uri |-> << "/", "W", "E", "B", "-", "I", "N", "F", "/",
                                             "t", "a", "g", "s", "/", "u", "i" >>] >>,
                   !.tags = << [prefix |-> << "u", "i" >>,
                                tag |-> << "b", "u", "t", "t", "o", "n" >>],
                               [prefix |-> << "x" >>, tag |-> << "n", "o", "p", "e" >>],
                               [prefix |-> << "m", "y" >>, tag |-> << "n", "o", "p", "e" >>] >>,
                   !.scriptlets = << [decision |-> 2, logical |-> 1, ternary |-> 0,
                                      braces |-> << "{", "{", "}", "}" >>],
                                     [decision |-> 0, logical |-> 0, ternary |-> 0,
                                      braces |-> << "}", "{", "{", "{", "{" >>],
                                     [decision |-> 0, logical |-> 0, ternary |-> 0,
                                      braces |-> << >>] >>,
                   !.lines = 200, !.security = 1]

\* a file a.jsp in a directory named "http:"
S_http_a_jsp == << "h", "t", "t", "p", ":", "/", "a", ".", "j", "s", "p" >>

\* 10 lines, <%@ include file="b.jsp" %>, a form with action "http://a.jsp"
\* and 17 EL expressions
TextSmallIncludeB ==
    [NoText EXCEPT !.incs = << Inc("directive", S_b_jsp, FALSE) >>,
                   !.forms = << << "h", "t", "t", "p", ":", "/", "/", "a", ".", "j", "s", "p" >> >>,
                   !.lines = 10, !.el = 17, !.html = 1]

\* 50 lines, a form with action "a.jsp?x=1" and 17 EL expressions
TextMidPlain ==
    [NoText EXCEPT !.forms = << S_a_jsp \o << "?", "x", "=", "1" >> >>,
                   !.lines = 50, !.el = 17]

\* 50 lines, <%@ taglib prefix="ui" uri="/WEB-INF/tags/ui" %>, <ui:button>,
\* <jsp:include page="/"/> and 96 EL expressions
TextMidButton ==
    [NoText EXCEPT !.taglibs = << [prefix |-> << "u", "i" >>,
                                  uri |-> << "/", "W", "E", "B", "-", "I", "N", "F", "/",
                                             "t", "a", "g", "s", "/", "u", "i" >>] >>,
                   !.tags = << [prefix |-> << "u", "i" >>,
                                tag |-> << "b", "u", "t", "t", "o", "n" >>] >>,
                   !.incs = << Inc("action", << SLASH >>, FALSE) >>,
                   !.lines = 50, !.el = 96, !.html = 1]

\* 200 lines and 97 EL expressions
TextLargePlain == [NoText EXCEPT !.lines = 200, !.el = 97]

\* the files of the scenarios: a path with its text
ScenarioFiles ==
    {[path |-> S_a_jsp, text |-> "TextSmallIncludeB"],
     [path |-> S_b_jsp, text |-> "TextMidPlain"],
     [path |-> S_c_b_jsp, text |-> "TextMidButton"],
     [path |-> S_button_tag, text |-> "TextLargePlain"],
     [path |-> S_http_a_jsp, text |-> "NoText"],
     [path |-> S_c_button_tag, text |-> "NoText"]}

\* files with like names: a path with its text
LikeNamedFiles ==
    {[path |-> S_a_b_jsp, text |-> "TextMidButton"],
     [path |-> S_a_dot_b_jsp, text |-> "TextSmallIncludeB"],
     [path |-> S_a_jsp, text |-> "TextMidPlain"]}

\* the file texts a project is made of, by name
FileTexts ==
    {"NoText", "TextIncludeAndForms", "TextIncludeATwice", "TextDynamicAndMissing",
     "TextTags"}

\* the text a name stands for
TextOf(name) ==
    CASE name = "NoText" -> NoText
      [] name = "TextIncludeAndForms" -> TextIncludeAndForms
      [] name = "TextIncludeATwice" -> TextIncludeATwice
      [] name = "TextDynamicAndMissing" -> TextDynamicAndMissing
      [] name = "TextTags" -> TextTags
      [] name = "TextSmallIncludeB" -> TextSmallIncludeB
      [] name = "TextMidPlain" -> TextMidPlain
      [] name = "TextMidButton" -> TextMidButton
      [] name = "TextLargePlain" -> TextLargePlain

(***************************************************************************)
(* The extraction of one file (analyze_file and the _extract_* methods).   *)
(***************************************************************************)
SelectType(incs, type) == SelectSeq(incs, LAMBDA o : o.type = type)

\* an entry of self.includes
IncludeEntry(o) == [type |-> o.type, target |-> o.target]

EntriesOf(incs) == [k \in 1..Len(incs) |-> IncludeEntry(incs[k])]

\* _extract_includes: on the raw content, one loop per type
ExtractIncludes(text) ==
    EntriesOf(SelectType(text.incs, "directive"))
    \o EntriesOf(SelectType(text.incs, "action"))
    \o EntriesOf(SelectType(text.incs, "c:import"))

\* the includes _extract_scriptlets appends: on the content without its
\* comments, one loop per type
ExtractIncludesAgain(text) ==
    LET clean == SelectSeq(text.incs, LAMBDA o : ~o.commented)
    IN  EntriesOf(SelectType(clean, "directive"))
        \o EntriesOf(SelectType(clean, "action"))
        \o EntriesOf(SelectType(clean, "c:import"))

\* a faulty brace scan that counts an unmatched closing brace
RECURSIVE MaxDepthBelowZero(_, _, _)
MaxDepthBelowZero(braces, cur_depth, max_depth) ==
    IF braces = << >> THEN max_depth
    ELSE IF Head(braces) = "{"
    THEN MaxDepthBelowZero(Tail(braces), cur_depth + 1, Max(max_depth, cur_depth + 1))
    ELSE MaxDepthBelowZero(Tail(braces), cur_depth - 1, max_depth)

\* the brace scan of the heuristic: max_depth after reading braces from
\* cur_depth and max_depth
RECURSIVE MaxDepth(_, _, _)
MaxDepth(braces, cur_depth, max_depth) ==
    IF braces = << >> THEN max_depth
    ELSE IF Head(braces) = "{"
    THEN MaxDepth(Tail(braces), cur_depth + 1, Max(max_depth, cur_depth + 1))
    ELSE MaxDepth(Tail(braces), Max(0, cur_depth - 1), max_depth)

\* the complexity recorded for one scriptlet (the keyword and brace heuristic)
ScriptletComplexity(sc) ==
    LET nesting_score == MaxDepth(sc.braces, 0, 0) \div 2
        complexity == sc.decision + sc.logical + sc.ternary + nesting_score
    IN  IF complexity <= 0 THEN 1 ELSE complexity

\* the entries _extract_scriptlets appends to self.scriptlets
ExtractScriptlets(text) ==
    [k \in 1..Len(text.scriptlets) |-> [complexity |-> ScriptletComplexity(text.scriptlets[k])]]

JSTL_PREFIXES == {<< "c" >>, << "f", "m", "t" >>, << "s", "q", "l" >>, << "x" >>}

STANDARD_PREFIXES == JSTL_PREFIXES \cup {<< "f", "n" >>, << "j", "s", "p" >>}

\* _extract_jstl_usage: the tag names after c:, fmt:, sql: and x:, one loop
\* per library; a c:import include is a core tag as well
ExtractJstl(text) ==
    LET imports == SelectType(text.incs, "c:import")
        core == SelectSeq(text.tags, LAMBDA t : t.prefix = << "c" >>)
        rest == SelectSeq(text.tags, LAMBDA t : t.prefix \in JSTL_PREFIXES \ {<< "c" >>})
    IN  [k \in 1..Len(imports) |-> << "i", "m", "p", "o", "r", "t" >>]
        \o [k \in 1..Len(core) |-> core[k].tag]
        \o [k \in 1..Len(rest) |-> rest[k].tag]

\* _extract_custom_tags: the tags whose prefix is not a standard one
ExtractCustomTags(text) ==
    SelectSeq(text.tags, LAMBDA t : t.prefix \notin STANDARD_PREFIXES)

\* round(x, 2) of x = num / den >= 0, in hundredths; a tie goes to the even
\* neighbour
Round2(num, den) ==
    LET q == (100 * num) \div den
        r == (100 * num) % den
    IN  IF 2 * r < den THEN q
        ELSE IF 2 * r > den THEN q + 1
        ELSE IF q % 2 = 0 THEN q ELSE q + 1

\* a faulty list of the tags that add to the cyclomatic complexity: every
\* tag of the core library seen in the texts
ALL_CORE_TAGS ==
    {<< "i", "f" >>, << "w", "h", "e", "n" >>, << "c", "h", "o", "o", "s", "e" >>,
     << "f", "o", "r", "E", "a", "c", "h" >>, << "i", "m", "p", "o", "r", "t" >>}

CONDITION_TAGS ==
    {<< "i", "f" >>, << "w", "h", "e", "n" >>, << "c", "h", "o", "o", "s", "e" >>,
     << "f", "o", "r", "E", "a", "c", "h" >>}

RECURSIVE SumComplexity(_)
SumComplexity(scs) ==
    IF scs = << >> THEN 0 ELSE Head(scs).complexity + SumComplexity(Tail(scs))

\* _calculate_file_metrics: the metrics of file_id from what has been
\* extracted; jsp_complexity in hundredths
FileMetrics(text, n_includes, scs, n_el, jstl, n_custom, n_security) ==
    LET ast_scriptlet_complexity == SumComplexity(scs)
        complexity == 1 + ast_scriptlet_complexity
                        + Len(SelectSeq(jstl, LAMBDA t : t \in CONDITION_TAGS))
        thousandths == 300 * ast_scriptlet_complexity + 150 * Len(scs) + 50 * n_el
                         + 50 * Len(jstl) + 50 * n_custom + 1 * text.html
                         + 100 * text.script + 150 * complexity + 150 * n_security
    IN  [lines |-> text.lines,
         scriptlet_count |-> Len(scs),
         el_total |-> n_el,
         jstl_total |-> Len(jstl),
         custom_tag_count |-> n_custom,
         html_elements |-> text.html,
         script_blocks |-> text.script,
         total_includes |-> n_includes,
         security_total |-> n_security,
         ast_complexity |-> ast_scriptlet_complexity,
         cyclomatic |-> complexity,
         jsp_complexity |-> Round2(thousandths, 1000)]

(***************************************************************************)
(* The state.                                                              *)
(***************************************************************************)
VARIABLES
    disk,              \* the files scan_files returns, in its order: [path, text,
                       \* readable, raises], the text by its name; raises is the
                       \* call of analyze_file's try block that raises, 0 for none
    pc,                \* the stage main is in
    cur,               \* analyze: the next file of disk; build: the next reference
    jsp_files,         \* self.jsp_files, as the sequence of its items
    tag_libraries,     \* self.tag_libraries
    includes,          \* self.includes
    scriptlets,        \* self.scriptlets
    el_expressions,    \* self.el_expressions, as its length per file
    jstl_usage,        \* self.jstl_usage
    custom_tags,       \* self.custom_tags
    forms,             \* self.forms
    security_issues,   \* self.security_issues, as its length per file
    metrics,           \* self.metrics
    coupling_metrics,  \* self.coupling_metrics
    issues,            \* self.issues, as the issue types per file
    dependencies,      \* self.dependencies
    dependency_graph,  \* self.dependency_graph: [nodes, edges]
    thresholds,        \* x_thresh and y_thresh of compute_clusters_and_plot, times 10000
    run,               \* the calls of analyze_project on this analyzer so far
    previous           \* the results its caller kept of the run before, None at first

facts == << tag_libraries, includes, scriptlets, el_expressions, jstl_usage,
            custom_tags, forms, security_issues >>

vars == << disk, pc, cur, jsp_files, facts, metrics, coupling_metrics,
           issues, dependencies, dependency_graph, thresholds, run, previous >>

\* the steps of the try block of analyze_file that write modelled state, by
\* their place among its fifteen calls
STEP_DIRECTIVES == 1
STEP_INCLUDES == 2
STEP_SCRIPTLETS == 3
STEP_EL == 7
STEP_JSTL == 8
STEP_CUSTOM_TAGS == 9
STEP_FORMS == 10
STEP_METRICS == 14
STEP_SECURITY == 15

\* the calls of the try block that raise in the model: 0 stands for none
RaisingSteps == {0, STEP_SCRIPTLETS, STEP_METRICS}

\* the sequences of distinct paths of length 1..MaxFiles
RECURSIVE PathSeqs(_)
PathSeqs(n) ==
    IF n = 0 THEN {<< >>}
    ELSE LET shorter == PathSeqs(n - 1)
         IN  shorter \cup {Append(s, p) : s \in {t \in shorter : Len(t) = n - 1},
                                          p \in PathUniverse}

Distinct(s) == \A k, m \in 1..Len(s) : k # m => s[k] # s[m]

Projects ==
    {s \in PathSeqs(MaxFiles) : Len(s) >= 1 /\ Distinct(s)}

\* what can go wrong with one file: nothing, _read_file_content gives None, or
\* one call of the try block raises
NoFault == [readable |-> TRUE, raises |-> 0]
FaultKinds ==
    {NoFault, [readable |-> FALSE, raises |-> 0]}
        \cup {[readable |-> TRUE, raises |-> step] : step \in RaisingSteps \ {0}}

\* the faults of a project of n files: MaxFailures faulty files at most
FaultsOf(n) ==
    {f \in [1..n -> FaultKinds] :
        Cardinality({k \in 1..n : f[k] # NoFault}) <= MaxFailures}

\* the projects on disk with the given paths and texts
DisksOf(projects, texts) ==
    UNION {{[k \in 1..Len(paths) |->
                [path |-> paths[k], text |-> tx[k], readable |-> f[k].readable,
                 raises |-> f[k].raises]] :
               tx \in [1..Len(paths) -> texts], f \in FaultsOf(Len(paths))} :
           paths \in projects}

\* __init__, and a project on disk
Init ==
    /\ disk \in DisksOf(Projects, FileTexts)
    /\ pc = "analyze"
    /\ cur = 1
    /\ jsp_files = << >>
    /\ tag_libraries = EmptyDict
    /\ includes = EmptyDict
    /\ scriptlets = EmptyDict
    /\ el_expressions = EmptyDict
    /\ jstl_usage = EmptyDict
    /\ custom_tags = EmptyDict
    /\ forms = EmptyDict
    /\ security_issues = EmptyDict
    /\ metrics = EmptyDict
    /\ coupling_metrics = EmptyDict
    /\ issues = EmptyDict
    /\ dependencies = EmptyDict
    /\ dependency_graph = [nodes |-> {}, edges |-> {}]
    /\ thresholds = << >>
    /\ run = 1
    /\ previous = None

\* the sequences of distinct scenario files of length 0..n
RECURSIVE ScenarioSeqs(_)
ScenarioSeqs(n) ==
    IF n = 0 THEN {<< >>}
    ELSE LET shorter == ScenarioSeqs(n - 1)
         IN  shorter \cup
             {Append(s, f) : s \in {t \in shorter : Len(t) = n - 1},
                             f \in ScenarioFiles}

\* the faults of a project of n scenario files: unreadable files only,
\* MaxFailures at most
ScenarioFaultsOf(n) ==
    {f \in [1..n -> BOOLEAN] :
        Cardinality({k \in 1..n : ~f[k]}) <= MaxFailures}

\* the projects made of scenario files, in any order of discovery
ScenarioDisks ==
    UNION {{[k \in 1..Len(fs) |->
                [path |-> fs[k].path, text |-> fs[k].text, readable |-> f[k],
                 raises |-> 0]] : f \in ScenarioFaultsOf(Len(fs))} :
           fs \in {s \in ScenarioSeqs(MaxScenarioFiles) : Len(s) >= 1 /\ Distinct(s)}}

\* __init__, and a project of scenario files on disk
InitScenario ==
    /\ disk \in ScenarioDisks
    /\ pc = "analyze"
    /\ cur = 1
    /\ jsp_files = << >>
    /\ tag_libraries = EmptyDict
    /\ includes = EmptyDict
    /\ scriptlets = EmptyDict
    /\ el_expressions = EmptyDict
    /\ jstl_usage = EmptyDict
    /\ custom_tags = EmptyDict
    /\ forms = EmptyDict
    /\ security_issues = EmptyDict
    /\ metrics = EmptyDict
    /\ coupling_metrics = EmptyDict
    /\ issues = EmptyDict
    /\ dependencies = EmptyDict
    /\ dependency_graph = [nodes |-> {}, edges |-> {}]
    /\ thresholds = << >>
    /\ run = 1
    /\ previous = None

(***************************************************************************)
(* analyze_file, for the next file of the loop of analyze_project.         *)
(***************************************************************************)
\* analyze_file returns at once: _read_file_content gave None
AnalyzeUnreadable ==
    /\ pc = "analyze"
    /\ cur <= Len(disk)
    /\ ~disk[cur].readable
    /\ cur' = cur + 1
    /\ UNCHANGED << disk, run, previous, pc, jsp_files, facts, metrics, coupling_metrics, issues,
                    dependencies, dependency_graph, thresholds >>

\* the try block of analyze_file on text: the calls before the one that raises
\* run, and the except clause records the error
TryBlock(file_id, text, raise) ==
    LET Ran(step) == raise = 0 \/ step < raise
        incs1 == IF Ran(STEP_INCLUDES)
                 THEN ExtendAt(includes, file_id, ExtractIncludes(text))
                 ELSE includes
        incs2 == IF Ran(STEP_SCRIPTLETS)
                 THEN ExtendAt(incs1, file_id, ExtractIncludesAgain(text))
                 ELSE incs1
        scs == IF Ran(STEP_SCRIPTLETS)
               THEN ExtendAt(scriptlets, file_id, ExtractScriptlets(text))
               ELSE scriptlets
        els == IF Ran(STEP_EL)
               THEN Put(el_expressions, file_id,
                        (IF file_id \in DOMAIN el_expressions
                         THEN el_expressions[file_id] ELSE 0) + text.el)
               ELSE el_expressions
        jstl == IF Ran(STEP_JSTL)
                THEN ExtendAt(jstl_usage, file_id, ExtractJstl(text))
                ELSE jstl_usage
        ctags == IF Ran(STEP_CUSTOM_TAGS)
                 THEN ExtendAt(custom_tags, file_id, ExtractCustomTags(text))
                 ELSE custom_tags
        sec_before == IF file_id \in DOMAIN security_issues
                      THEN security_issues[file_id] ELSE 0
    IN  /\ tag_libraries' = IF Ran(STEP_DIRECTIVES)
                            THEN ExtendAt(tag_libraries, file_id, text.taglibs)
                            ELSE tag_libraries
        /\ includes' = incs2
        /\ scriptlets' = scs
        /\ el_expressions' = els
        /\ jstl_usage' = jstl
        /\ custom_tags' = ctags
        /\ forms' = IF Ran(STEP_FORMS)
                    THEN ExtendAt(forms, file_id, text.forms)
                    ELSE forms
        /\ metrics' = IF Ran(STEP_METRICS)
                      THEN Put(metrics, file_id,
                               FileMetrics(text, Len(Get(incs2, file_id)),
                                           Get(scs, file_id), els[file_id],
                                           Get(jstl, file_id),
                                           Len(Get(ctags, file_id)), sec_before))
                      ELSE metrics
        /\ security_issues' = IF Ran(STEP_SECURITY)
                              THEN Put(security_issues, file_id,
                                       sec_before + text.security)
                              ELSE security_issues
        /\ issues' = IF raise # 0
                     THEN AppendTo(issues, file_id, "analysis_error")
                     ELSE issues

\* a faulty analyze_file without its except clause: the error of one file
\* leaves analyze_project, and the run ends there
AnalyzeFileAborting ==
    /\ pc = "analyze"
    /\ cur <= Len(disk)
    /\ disk[cur].readable
    /\ LET file_id == FileId(disk[cur].path)
       IN  /\ jsp_files' = SetFile(jsp_files, file_id, disk[cur].path)
           /\ IF disk[cur].raises # 0
              THEN /\ pc' = "done"
                   /\ UNCHANGED << cur, facts, metrics, issues >>
              ELSE /\ TryBlock(file_id, TextOf(disk[cur].text), 0)
                   /\ cur' = cur + 1
                   /\ pc' = pc
    /\ UNCHANGED << disk, run, previous, coupling_metrics, dependencies, dependency_graph,
                    thresholds >>

\* analyze_file on a readable file: it is registered, then the try block runs
AnalyzeFile ==
    /\ pc = "analyze"
    /\ cur <= Len(disk)
    /\ disk[cur].readable
    /\ LET file_id == FileId(disk[cur].path)
       IN  /\ jsp_files' = SetFile(jsp_files, file_id, disk[cur].path)
           /\ TryBlock(file_id, TextOf(disk[cur].text), disk[cur].raises)
    /\ cur' = cur + 1
    /\ UNCHANGED << disk, run, previous, pc, coupling_metrics, dependencies, dependency_graph,
                    thresholds >>

\* a faulty loop of analyze_project that goes on to the build after the
\* first file
AnalyzeDoneAfterFirst ==
    /\ pc = "analyze"
    /\ cur > Min(Len(disk), 1)
    /\ pc' = "build"
    /\ cur' = 0
    /\ UNCHANGED << disk, run, previous, jsp_files, facts, metrics, coupling_metrics,
                    issues, dependencies, dependency_graph, thresholds >>

\* the loop of analyze_project is over: build_dependency_graph is called
AnalyzeDone ==
    /\ pc = "analyze"
    /\ cur > Len(disk)
    /\ pc' = "build"
    /\ cur' = 0
    /\ UNCHANGED << disk, run, previous, jsp_files, facts, metrics, coupling_metrics,
                    issues, dependencies, dependency_graph, thresholds >>

(***************************************************************************)
(* build_dependency_graph: the nodes, then one reference per step, in the  *)
(* order of its three loops.                                               *)
(***************************************************************************)
\* the items of one dict of lists, file by file
RECURSIVE ItemsOf(_, _, _, _)
ItemsOf(kind, files, dict, k) ==
    IF k > Len(files) THEN << >>
    ELSE LET file_id == files[k].id
             list == Get(dict, file_id)
         IN  [m \in 1..Len(list) |-> [kind |-> kind, file_id |-> file_id, item |-> list[m]]]
             \o ItemsOf(kind, files, dict, k + 1)

\* the references the three loops go through, in order
WorkList ==
    ItemsOf("include", jsp_files, includes, 1)
    \o ItemsOf("form", jsp_files, forms, 1)
    \o ItemsOf("tag", jsp_files, custom_tags, 1)

\* dependency_graph.add_edge(u, v)
AddEdge(g, u, v) ==
    [nodes |-> g.nodes \cup {u, v}, edges |-> g.edges \cup {<< u, v >>}]

\* a faulty step that logs a reference only when its edge is new
ProcessOncePerPair(file_id, recs) ==
    /\ dependencies' = IF recs = << >>
                          \/ (recs[1].target # None
                              /\ << file_id, recs[1].target >> \in dependency_graph.edges)
                       THEN dependencies
                       ELSE ExtendAt(dependencies, file_id, recs)
    /\ dependency_graph' =
          IF recs # << >> /\ recs[1].target # None
          THEN AddEdge(dependency_graph, file_id, recs[1].target)
          ELSE dependency_graph
    /\ cur' = cur + 1
    /\ UNCHANGED << disk, run, previous, pc, jsp_files, facts, metrics, coupling_metrics,
                    issues, thresholds >>

\* the records appended and the edge added for one reference
Process(file_id, recs) ==
    /\ dependencies' = IF recs = << >> THEN dependencies
                       ELSE ExtendAt(dependencies, file_id, recs)
    /\ dependency_graph' =
          IF recs # << >> /\ recs[1].target # None
          THEN AddEdge(dependency_graph, file_id, recs[1].target)
          ELSE dependency_graph
    /\ cur' = cur + 1
    /\ UNCHANGED << disk, run, previous, pc, jsp_files, facts, metrics, coupling_metrics,
                    issues, thresholds >>

\* a faulty build without its first loop: nodes come from edges only
BuildNodesFromEdges ==
    /\ pc = "build"
    /\ cur = 0
    /\ cur' = 1
    /\ UNCHANGED << disk, run, previous, pc, jsp_files, facts, metrics, coupling_metrics,
                    issues, dependencies, dependency_graph, thresholds >>

\* the first loop: a node per registered file
BuildNodes ==
    /\ pc = "build"
    /\ cur = 0
    /\ dependency_graph' = [dependency_graph EXCEPT !.nodes = @ \cup FileIds(jsp_files)]
    /\ cur' = 1
    /\ UNCHANGED << disk, run, previous, pc, jsp_files, facts, metrics, coupling_metrics,
                    issues, dependencies, thresholds >>

\* a faulty include step that reads the graph: it resolves among the files
\* the including file has no edge to yet
BuildIncludeAmongNew ==
    /\ pc = "build"
    /\ cur >= 1
    /\ LET work == WorkList
       IN  /\ cur <= Len(work)
           /\ work[cur].kind = "include"
           /\ LET w == work[cur]
                  IsNew(f) == << w.file_id, f.id >> \notin dependency_graph.edges
              IN  Process(w.file_id, IncludeRecords(SelectSeq(jsp_files, IsNew),
                                                    w.file_id, w.item.type, w.item.target))

\* one include of the includes loop
BuildInclude ==
    /\ pc = "build"
    /\ cur >= 1
    /\ LET work == WorkList
       IN  /\ cur <= Len(work)
           /\ work[cur].kind = "include"
           /\ LET w == work[cur]
              IN  Process(w.file_id, IncludeRecords(jsp_files, w.file_id, w.item.type, w.item.target))

\* one form of the forms loop
BuildForm ==
    /\ pc = "build"
    /\ cur >= 1
    /\ LET work == WorkList
       IN  /\ cur <= Len(work)
           /\ work[cur].kind = "form"
           /\ LET w == work[cur]
              IN  Process(w.file_id, FormRecords(jsp_files, w.item))

\* one usage of the custom tags loop
BuildTag ==
    /\ pc = "build"
    /\ cur >= 1
    /\ LET work == WorkList
       IN  /\ cur <= Len(work)
           /\ work[cur].kind = "tag"
           /\ LET w == work[cur]
              IN  Process(w.file_id, TagRecords(jsp_files, tag_libraries, w.file_id, w.item))

\* build_dependency_graph returns: calculate_coupling_metrics is called
BuildDone ==
    /\ pc = "build"
    /\ cur > Len(WorkList)
    /\ pc' = "coupling"
    /\ UNCHANGED << disk, run, previous, cur, jsp_files, facts, metrics, coupling_metrics,
                    issues, dependencies, dependency_graph, thresholds >>

(***************************************************************************)
(* calculate_coupling_metrics.                                             *)
(***************************************************************************)
\* dependency_graph.in_degree(node)
InDegree(g, node) == Cardinality({e \in g.edges : e[2] = node})

\* a faulty out-degree: the references logged, not the distinct targets
OutDegreeOfLog(g, node) ==
    Len(SelectSeq(Get(dependencies, node), LAMBDA r : r.target # None))

\* dependency_graph.out_degree(node)
OutDegree(g, node) == Cardinality({e \in g.edges : e[1] = node})

\* the sequences of 1..n nodes of g
RECURSIVE NodeSeqs(_, _)
NodeSeqs(g, n) ==
    IF n <= 1 THEN {<< v >> : v \in g.nodes}
    ELSE LET shorter == NodeSeqs(g, n - 1)
         IN  shorter \cup
             {Append(p, v) : p \in shorter, v \in g.nodes}

\* list(nx.simple_cycles(dependency_graph)): every elementary circuit, here
\* from each of its nodes
SimpleCycles(g) ==
    {p \in NodeSeqs(g, Cardinality(g.nodes)) :
        /\ \A k \in 1..(Len(p) - 1) : << p[k], p[k + 1] >> \in g.edges
        /\ \A k, m \in 1..Len(p) : k # m => p[k] # p[m]
        /\ << p[Len(p)], p[1] >> \in g.edges}

\* a faulty flag that leaves out the cycles of one node
HasCyclicLongerCycles(g, node) ==
    \E cycle \in SimpleCycles(g) :
        Len(cycle) > 1 /\ \E k \in 1..Len(cycle) : cycle[k] = node

\* a faulty flag that looks at the cycles of at most two nodes
HasCyclicShortCycles(g, node) ==
    \E cycle \in SimpleCycles(g) :
        Len(cycle) <= 2 /\ \E k \in 1..Len(cycle) : cycle[k] = node

\* has_cyclic = any(node in cycle for cycle in cycles)
HasCyclic(g, node) ==
    \E cycle \in SimpleCycles(g) : \E k \in 1..Len(cycle) : cycle[k] = node

\* a faulty instability, cut to two decimals instead of rounded
InstabilityTruncated(in_degree, out_degree) ==
    IF in_degree + out_degree > 0
    THEN (100 * out_degree) \div (in_degree + out_degree)
    ELSE 0

\* instability, rounded as stored, in hundredths
Instability(in_degree, out_degree) ==
    IF in_degree + out_degree > 0
    THEN Round2(out_degree, in_degree + out_degree)
    ELSE 0

\* the entry of coupling_metrics for node
CouplingOf(g, node) ==
    [in_degree |-> InDegree(g, node),
     out_degree |-> OutDegree(g, node),
     total_coupling |-> InDegree(g, node) + OutDegree(g, node),
     instability |-> Instability(InDegree(g, node), OutDegree(g, node)),
     has_cyclic |-> HasCyclic(g, node)]

CalculateCouplingMetrics ==
    /\ pc = "coupling"
    /\ coupling_metrics' =
          [node \in (DOMAIN coupling_metrics) \cup dependency_graph.nodes |->
              IF node \in dependency_graph.nodes
              THEN CouplingOf(dependency_graph, node)
              ELSE coupling_metrics[node]]
    /\ metrics' =
          [file_id \in DOMAIN metrics |->
              IF file_id \in dependency_graph.nodes
              THEN CouplingOf(dependency_graph, file_id) @@ metrics[file_id]
              ELSE metrics[file_id]]
    /\ pc' = "issues"
    /\ UNCHANGED << disk, run, previous, cur, jsp_files, facts, issues, dependencies,
                    dependency_graph, thresholds >>

(***************************************************************************)
(* _identify_issue_patterns (the pattern analyses before it write only     *)
(* html_patterns and java_patterns, which are not modelled; nor is the     *)
(* size of a file and its large_file issue).                               *)
(***************************************************************************)
EXCESSIVE_SCRIPTLETS == 5

\* the issue types appended for file_id
IssuesFound(file_id) ==
    (IF file_id \in DOMAIN scriptlets /\ Len(scriptlets[file_id]) > EXCESSIVE_SCRIPTLETS
     THEN << "excessive_scriptlets" >> ELSE << >>)
    \o (IF file_id \in DOMAIN security_issues
        THEN [k \in 1..security_issues[file_id] |-> "security"] ELSE << >>)
    \o (IF file_id \in DOMAIN coupling_metrics /\ coupling_metrics[file_id].has_cyclic
        THEN << "cyclic_dependency" >> ELSE << >>)

IdentifyIssuePatterns ==
    /\ pc = "issues"
    /\ issues' = [file_id \in (DOMAIN issues) \cup
                              {f \in FileIds(jsp_files) : IssuesFound(f) # << >>} |->
                    Get(issues, file_id)
                    \o (IF file_id \in FileIds(jsp_files) THEN IssuesFound(file_id)
                        ELSE << >>)]
    /\ pc' = "clusters"
    /\ UNCHANGED << disk, run, previous, cur, jsp_files, facts, metrics, coupling_metrics,
                    dependencies, dependency_graph, thresholds >>

(***************************************************************************)
(* compute_clusters_and_plot, called by main after analyze_project.        *)
(***************************************************************************)
\* the percentiles asked of np.percentile, in hundredths of a percent
LOWER_PERCENTILE == 3333

UPPER_PERCENTILE == 6666

\* the scale of a threshold: 100 percent in hundredths of a percent
SCALE == 10000

RECURSIVE SeqOfSet(_)
SeqOfSet(S) ==
    IF S = {} THEN << >>
    ELSE LET x == CHOOSE y \in S : TRUE IN << x >> \o SeqOfSet(S \ {x})

\* the values of one metric over self.metrics
ValuesOf(ms, field) ==
    LET ids == SeqOfSet(DOMAIN ms) IN [k \in 1..Len(ids) |-> ms[ids[k]][field]]

\* a faulty percentile: the nearest value, without interpolation
PercentileNearest(values, q) ==
    LET sorted == SortSeq(values, LAMBDA a, b : a < b)
        n == Len(sorted)
        lo == (q * (n - 1)) \div SCALE
        frac == (q * (n - 1)) % SCALE
        nearest == IF 2 * frac >= SCALE THEN Min(lo + 1, n - 1) ELSE lo
    IN  sorted[nearest + 1] * SCALE

\* np.percentile(values, q) by linear interpolation, times SCALE
Percentile(values, q) ==
    LET sorted == SortSeq(values, LAMBDA a, b : a < b)
        n == Len(sorted)
        lo == (q * (n - 1)) \div SCALE
        frac == (q * (n - 1)) % SCALE
        hi == Min(lo + 1, n - 1)
    IN  sorted[lo + 1] * SCALE + frac * (sorted[hi + 1] - sorted[lo + 1])

\* np.max(values), times SCALE
MaxOf(values) ==
    SCALE * (CHOOSE v \in {values[k] : k \in 1..Len(values)} :
                \A k \in 1..Len(values) : values[k] <= v)

\* a faulty pair of thresholds: the percentiles whatever the number of values
ThresholdsByPercentile(values) ==
    << Percentile(values, LOWER_PERCENTILE), Percentile(values, UPPER_PERCENTILE) >>

\* the pair of thresholds of one axis
Thresholds(values) ==
    IF Len(values) > 2
    THEN << Percentile(values, LOWER_PERCENTILE), Percentile(values, UPPER_PERCENTILE) >>
    ELSE << MaxOf(values), MaxOf(values) >>

\* a faulty index that puts a value equal to a threshold in the bucket above
BucketBelowThreshold(v, thresh) ==
    IF v * SCALE < thresh[1] THEN 0
    ELSE IF v * SCALE < thresh[2] THEN 1
    ELSE 2

\* the index 0, 1 or 2 of a value on its axis
Bucket(v, thresh) ==
    IF v * SCALE <= thresh[1] THEN 0
    ELSE IF v * SCALE <= thresh[2] THEN 1
    ELSE 2

complexity_labels == << "low", "mid", "high" >>

size_labels == << "small", "mid", "large" >>

\* a faulty classification that also writes the size index over the line
\* count of the file
ClusterOfOverwritingLines(m, x_thresh, y_thresh) ==
    LET cx == Bucket(m.lines, x_thresh)
        cy == Bucket(m.jsp_complexity, y_thresh)
        cluster_id == cy * 3 + cx
    IN  [cluster |-> cluster_id,
         cluster_label |-> [num_prefix |-> cluster_id + 1,
                            complexity |-> complexity_labels[cy + 1],
                            size |-> size_labels[cx + 1]],
         lines |-> cx]

\* the cluster id and label written into the metrics of one file
ClusterOf(m, x_thresh, y_thresh) ==
    LET cx == Bucket(m.lines, x_thresh)
        cy == Bucket(m.jsp_complexity, y_thresh)
        cluster_id == cy * 3 + cx
    IN  [cluster |-> cluster_id,
         cluster_label |-> [num_prefix |-> cluster_id + 1,
                            complexity |-> complexity_labels[cy + 1],
                            size |-> size_labels[cx + 1]]]

ComputeClusters ==
    /\ pc = "clusters"
    /\ IF DOMAIN metrics = {}
       THEN UNCHANGED << metrics, thresholds >>
       ELSE LET x_thresh == Thresholds(ValuesOf(metrics, "lines"))
                y_thresh == Thresholds(ValuesOf(metrics, "jsp_complexity"))
            IN  /\ thresholds' = << x_thresh, y_thresh >>
                /\ metrics' = [file_id \in DOMAIN metrics |->
                                 ClusterOf(metrics[file_id], x_thresh, y_thresh)
                                 @@ metrics[file_id]]
    /\ pc' = "done"
    /\ UNCHANGED << disk, run, previous, cur, jsp_files, facts, coupling_metrics, issues,
                    dependencies, dependency_graph >>

(***************************************************************************)
(* The specification.                                                      *)
(***************************************************************************)
Next ==
    \/ AnalyzeUnreadable
    \/ AnalyzeFile
    \/ AnalyzeDone
    \/ BuildNodes
    \/ BuildInclude
    \/ BuildForm
    \/ BuildTag
    \/ BuildDone
    \/ CalculateCouplingMetrics
    \/ IdentifyIssuePatterns
    \/ ComputeClusters

Spec == Init /\ [][Next]_vars

(***************************************************************************)
(* A caller that keeps the results of a run and runs the pipeline again on *)
(* the same analyzer and the same files: analyze_project resets nothing.   *)
(***************************************************************************)
\* the derived structures of a run
Results ==
    [graph |-> dependency_graph, log |-> dependencies,
     coupling |-> coupling_metrics, metrics |-> metrics]

Rerun ==
    /\ pc = "done"
    /\ run < MaxRuns
    /\ run' = run + 1
    /\ previous' = Results
    /\ pc' = "analyze"
    /\ cur' = 1
    /\ UNCHANGED << disk, jsp_files, facts, metrics, coupling_metrics, issues,
                    dependencies, dependency_graph, thresholds >>

NextRerun == Next \/ Rerun

\* runs of the pipeline, one after the other, on a project of scenario files
SpecRerun == InitScenario /\ [][NextRerun]_vars

\* the orders in which scan_files can return the like-named files
LikeNamedSeqs ==
    {s \in [1..Cardinality(LikeNamedFiles) -> LikeNamedFiles] : Distinct(s)}

\* the projects made of the like-named files, with their faults
LikeNamedDisks ==
    UNION {{[k \in 1..Len(fs) |->
                [path |-> fs[k].path, text |-> fs[k].text, readable |-> f[k],
                 raises |-> 0]] : f \in ScenarioFaultsOf(Len(fs))} :
           fs \in LikeNamedSeqs}

\* __init__, and a project of like-named files on disk
InitLikeNamed ==
    /\ disk \in LikeNamedDisks
    /\ pc = "analyze"
    /\ cur = 1
    /\ jsp_files = << >>
    /\ tag_libraries = EmptyDict
    /\ includes = EmptyDict
    /\ scriptlets = EmptyDict
    /\ el_expressions = EmptyDict
    /\ jstl_usage = EmptyDict
    /\ custom_tags = EmptyDict
    /\ forms = EmptyDict
    /\ security_issues = EmptyDict
    /\ metrics = EmptyDict
    /\ coupling_metrics = EmptyDict
    /\ issues = EmptyDict
    /\ dependencies = EmptyDict
    /\ dependency_graph = [nodes |-> {}, edges |-> {}]
    /\ thresholds = << >>
    /\ run = 1
    /\ previous = None

\* main on a project of like-named files
SpecLikeNamed == InitLikeNamed /\ [][Next]_vars

\* main on a project of scenario files
SpecScenario == InitScenario /\ [][Next]_vars

\* the files the nodes of a graph stand for
GraphFiles == << S_a_jsp, S_b_jsp, S_c_b_jsp, S_button_tag >>

GraphNodes == {FileId(GraphFiles[k]) : k \in 1..Min(MaxGraphNodes, Len(GraphFiles))}

\* every directed graph over the nodes, self-loops included
Graphs == {[nodes |-> GraphNodes, edges |-> E] : E \in SUBSET (GraphNodes \X GraphNodes)}

\* the state at the call of calculate_coupling_metrics, for any graph the
\* build can have left
InitGraphs ==
    /\ disk = << >>
    /\ pc = "coupling"
    /\ cur = 1
    /\ jsp_files = [k \in 1..Min(MaxGraphNodes, Len(GraphFiles)) |->
                       [id |-> FileId(GraphFiles[k]), path |-> GraphFiles[k]]]
    /\ tag_libraries = EmptyDict
    /\ includes = EmptyDict
    /\ scriptlets = EmptyDict
    /\ el_expressions = EmptyDict
    /\ jstl_usage = EmptyDict
    /\ custom_tags = EmptyDict
    /\ forms = EmptyDict
    /\ security_issues = EmptyDict
    /\ metrics = EmptyDict
    /\ coupling_metrics = EmptyDict
    /\ issues = EmptyDict
    /\ dependencies = EmptyDict
    /\ dependency_graph \in Graphs
    /\ thresholds = << >>
    /\ run = 1
    /\ previous = None

NextGraphs == CalculateCouplingMetrics

\* calculate_coupling_metrics on any graph
SpecGraphs == InitGraphs /\ [][NextGraphs]_vars

(***************************************************************************)
(* The properties of the graph and of the log.                             *)
(***************************************************************************)
\* build_dependency_graph has returned
AfterBuild == pc \in {"coupling", "issues", "clusters", "done"}

\* calculate_coupling_metrics has returned
AfterCoupling == pc \in {"issues", "clusters", "done"}

\* the log records of origin
LogOf(origin) == Get(dependencies, origin)

\* the records of the whole log, as pairs of an origin and a record
LogRecords ==
    UNION {{<< origin, dependencies[origin][k] >> : k \in 1..Len(dependencies[origin])} :
           origin \in DOMAIN dependencies}

\* the pairs of an origin and a target that the log holds
LoggedPairs == {<< lr[1], lr[2].target >> : lr \in {x \in LogRecords : x[2].target # None}}

\* C1: after build_dependency_graph, the origin and the target of every edge,
\* and the target of every log record that has one, are ids of the registry.
NoDanglingReference ==
    AfterBuild =>
        /\ \A e \in dependency_graph.edges :
              e[1] \in FileIds(jsp_files) /\ e[2] \in FileIds(jsp_files)
        /\ \A lr \in LogRecords :
              lr[2].target # None => lr[2].target \in FileIds(jsp_files)

\* a finished run with an edge, a log record with a target and one without
NoDanglingReferenceWitness ==
    /\ pc = "done"
    /\ dependency_graph.edges # {}
    /\ \E lr \in LogRecords : lr[2].target # None
    /\ \E lr \in LogRecords : lr[2].target = None

\* the reference build_dependency_graph processes next
AtReference == pc = "build" /\ cur >= 1 /\ cur <= Len(WorkList)

\* the text holds "${" or "<%"
HasMarker(t) ==
    \E k \in 1..(Len(t) - 1) :
        \/ t[k] = "$" /\ t[k + 1] = "{"
        \/ t[k] = "<" /\ t[k + 1] = "%"

\* the step appends exactly one record to the log of origin, and changes no
\* other log
OneRecordAppended(origin) ==
    /\ origin \in DOMAIN dependencies'
    /\ Len(dependencies'[origin]) = Len(LogOf(origin)) + 1
    /\ SubSeq(dependencies'[origin], 1, Len(LogOf(origin))) = LogOf(origin)
    /\ \A other \in (DOMAIN dependencies') \ {origin} :
          other \in DOMAIN dependencies /\ dependencies'[other] = dependencies[other]

\* C2: processing an include whose raw target holds "${" or "<%" changes no
\* edge and no node, and appends exactly one record, with no target and
\* marked dynamic, to the log of the including file.
DynamicIncludeLoggedOnly ==
    [][(AtReference /\ WorkList[cur].kind = "include"
          /\ HasMarker(WorkList[cur].item.target))
       => LET origin == WorkList[cur].file_id
          IN  /\ dependency_graph' = dependency_graph
              /\ OneRecordAppended(origin)
              /\ LET r == dependencies'[origin][Len(dependencies'[origin])]
                 IN  /\ r.target = None
                     /\ r.dynamic = TRUE
                     /\ r.raw = WorkList[cur].item.target]_vars

\* a finished run in which "${u}/a.jsp" was logged as dynamic by a file that
\* has no edge to a.jsp although a.jsp is registered
DynamicIncludeWitness ==
    /\ pc = "done"
    /\ FileId(S_a_jsp) \in FileIds(jsp_files)
    /\ \E lr \in LogRecords :
          /\ lr[2].dynamic
          /\ lr[2].target = None
          /\ EndsWith(lr[2].raw, S_a_jsp)
          /\ << lr[1], FileId(S_a_jsp) >> \notin dependency_graph.edges

\* the reference is not dynamic, is not skipped, and no registered file
\* passes any of the tests of its loop
Unresolved(w) ==
    CASE w.kind = "include" ->
            /\ w.item.target # << >>
            /\ ~HasMarker(w.item.target)
            /\ ExactMatch(jsp_files, w.file_id, w.item.target) = None
            /\ BasenameFallback(jsp_files, w.item.target) = None
      [] w.kind = "form" ->
            /\ w.item # << >>
            /\ ~IsExternalAction(w.item)
            /\ FormMatch(jsp_files, w.item) = None
      [] w.kind = "tag" ->
            /\ ResolveTagFile(jsp_files, tag_libraries, w.item.tag, w.file_id) = None
            /\ TagBasenameMatch(jsp_files, w.item.tag) = None

\* C3: processing a non-dynamic reference (an include, a form action or a
\* custom tag) that matches no file changes no edge and appends one record
\* to the log of the referring file.
UnresolvedReferenceLogged ==
    [][(AtReference /\ Unresolved(WorkList[cur]))
       => /\ dependency_graph' = dependency_graph
          /\ OneRecordAppended(WorkList[cur].file_id)]_vars

\* the records processing w appends
RecordsOf(w) ==
    CASE w.kind = "include" -> IncludeRecords(jsp_files, w.file_id, w.item.type, w.item.target)
      [] w.kind = "form" -> FormRecords(jsp_files, w.item)
      [] w.kind = "tag" -> TagRecords(jsp_files, tag_libraries, w.file_id, w.item)

\* the references processed, in order, each with its origin and the records
\* processing it appends
ResolvedReferences ==
    LET work == WorkList
    IN  [k \in 1..Len(work) |->
            [origin |-> work[k].file_id, recs |-> RecordsOf(work[k])]]

\* C4: the edges are exactly the pairs of origin and target of the log
\* records that have a target (one edge per ordered pair, the edges being a
\* set), and every reference that resolves has a log record of its own: an
\* origin has as many records with a given target as references to it.
EdgesCollapseTheLog ==
    AfterBuild =>
        LET refs == ResolvedReferences
        IN  /\ dependency_graph.edges = LoggedPairs
            /\ \A e \in dependency_graph.edges :
                  Cardinality({k \in DOMAIN refs :
                                  /\ refs[k].origin = e[1]
                                  /\ refs[k].recs # << >>
                                  /\ refs[k].recs[1].target = e[2]})
                     = Len(SelectSeq(LogOf(e[1]), LAMBDA r : r.target = e[2]))

\* a finished run where one file has several log records with the same target
EdgesCollapseTheLogWitness ==
    /\ pc = "done"
    /\ \E e \in dependency_graph.edges :
          /\ Len(SelectSeq(LogOf(e[1]), LAMBDA r : r.target = e[2])) >= 2
          /\ Cardinality({f \in dependency_graph.edges : f[1] = e[1]}) = 1

\* C5: after build_dependency_graph the nodes of the graph are exactly the
\* ids of the registry, the files without any reference included.
NodesAreTheRegistry ==
    AfterBuild => dependency_graph.nodes = FileIds(jsp_files)

\* a finished run with an edge and with a node that no edge touches
NodesAreTheRegistryWitness ==
    /\ pc = "done"
    /\ dependency_graph.edges # {}
    /\ \E node \in dependency_graph.nodes :
          \A e \in dependency_graph.edges : e[1] # node /\ e[2] # node

(***************************************************************************)
(* The properties of the coupling metrics.                                 *)
(***************************************************************************)
Abs(n) == IF n < 0 THEN -n ELSE n

\* C6: the instability of a node is outDegree / (inDegree + outDegree)
\* rounded to two decimals when the node has an edge, 0 when it has none,
\* and lies in [0, 1]; in hundredths: v is the nearest integer to
\* 100 * out / total.
InstabilityIsRoundedRatio ==
    AfterCoupling =>
        \A node \in FileIds(jsp_files) :
            /\ node \in DOMAIN coupling_metrics
            /\ LET m == coupling_metrics[node]
                   v == m.instability
                   total == m.in_degree + m.out_degree
               IN  /\ 0 <= v /\ v <= 100
                   /\ total > 0 => 2 * Abs(v * total - 100 * m.out_degree) <= total
                   /\ total = 0 => v = 0
                   /\ node \in DOMAIN metrics => metrics[node].instability = v

\* a finished run with a node of instability 2/3, stored as 0.67, and a node
\* without edges
InstabilityWitness ==
    /\ pc = "done"
    /\ \E node \in DOMAIN coupling_metrics :
          /\ coupling_metrics[node].in_degree = 1
          /\ coupling_metrics[node].out_degree = 2
          /\ coupling_metrics[node].instability = 67
    /\ \E node \in DOMAIN coupling_metrics :
          /\ coupling_metrics[node].total_coupling = 0
          /\ coupling_metrics[node].instability = 0

\* the distinct targets the log holds for origin
TargetsOf(origin) == {pair[2] : pair \in {x \in LoggedPairs : x[1] = origin}}

\* the distinct origins the log holds for target
OriginsOf(target) == {pair[1] : pair \in {x \in LoggedPairs : x[2] = target}}

\* C7: the degrees are counted on the collapsed graph: the out-degree of a
\* node is the number of distinct targets it refers to, its in-degree the
\* number of distinct files referring to it, however many references there
\* are; the total coupling is their sum.
DegreesOfCollapsedGraph ==
    AfterCoupling =>
        \A node \in FileIds(jsp_files) :
            /\ node \in DOMAIN coupling_metrics
            /\ coupling_metrics[node].out_degree = Cardinality(TargetsOf(node))
            /\ coupling_metrics[node].in_degree = Cardinality(OriginsOf(node))
            /\ coupling_metrics[node].total_coupling
                  = Cardinality(TargetsOf(node)) + Cardinality(OriginsOf(node))

\* a finished run where a file with several log records for one target has
\* out-degree 1
DegreesWitness ==
    /\ pc = "done"
    /\ \E origin \in DOMAIN coupling_metrics :
          /\ Len(SelectSeq(LogOf(origin), LAMBDA r : r.target # None)) >= 2
          /\ coupling_metrics[origin].out_degree = 1

\* the nodes reached from the nodes of S along the edges E
RECURSIVE ReachedFrom(_, _)
ReachedFrom(E, S) ==
    LET T == S \cup {e[2] : e \in {f \in E : f[1] \in S}}
    IN  IF T = S THEN S ELSE ReachedFrom(E, T)

\* node comes back to itself along one edge or more
OnCycle(E, node) ==
    node \in ReachedFrom(E, {e[2] : e \in {f \in E : f[1] = node}})

\* C8: a node is flagged cyclic exactly when it lies on a directed cycle, a
\* self-loop counting as one: the nodes of A -> B -> C -> A are all flagged,
\* a node that only points into or is pointed to from a cycle is not.
CyclicFlagIsOnCycle ==
    AfterCoupling =>
        \A node \in dependency_graph.nodes :
            /\ node \in DOMAIN coupling_metrics
            /\ coupling_metrics[node].has_cyclic <=> OnCycle(dependency_graph.edges, node)

\* a finished run with a cycle through three files, all of them flagged
CyclicFlagWitness ==
    /\ pc = "done"
    /\ \E a, b, c \in dependency_graph.nodes :
          /\ a # b /\ b # c /\ a # c
          /\ {<< a, b >>, << b, c >>, << c, a >>} \subseteq dependency_graph.edges
          /\ coupling_metrics[a].has_cyclic
          /\ coupling_metrics[b].has_cyclic
          /\ coupling_metrics[c].has_cyclic

(***************************************************************************)
(* The properties of a run with a failing file.                            *)
(***************************************************************************)
\* analyze_file has been called on the k-th file
Analyzed(k) == pc # "analyze" \/ k < cur

\* C9: an error raised while the facts of one file are extracted does not
\* end the run: an issue of type analysis_error is recorded for the file,
\* the file is in the registry, and a node of the graph once the graph is
\* built, with the facts extracted before the failure; the other files are
\* analyzed, those without an error up to their metrics.
ErrorOfOneFileIsIsolated ==
    \A k \in 1..Len(disk) :
        (Analyzed(k) /\ disk[k].readable) =>
            LET file_id == FileId(disk[k].path)
                text == TextOf(disk[k].text)
                raise == disk[k].raises
                Ran(step) == raise = 0 \/ step < raise
            IN  /\ file_id \in FileIds(jsp_files)
                /\ AfterBuild => file_id \in dependency_graph.nodes
                /\ raise # 0 =>
                      /\ file_id \in DOMAIN issues
                      /\ \E j \in 1..Len(issues[file_id]) :
                            issues[file_id][j] = "analysis_error"
                /\ Ran(STEP_DIRECTIVES) => Get(tag_libraries, file_id) = text.taglibs
                /\ Ran(STEP_INCLUDES) =>
                      \A j \in 1..Len(text.incs) :
                          \E m \in 1..Len(Get(includes, file_id)) :
                              /\ includes[file_id][m].type = text.incs[j].type
                              /\ includes[file_id][m].target = text.incs[j].target
                /\ Ran(STEP_FORMS) => Get(forms, file_id) = text.forms
                /\ raise = 0 => file_id \in DOMAIN metrics

\* a finished run where the metrics of a file raised, the includes extracted
\* before gave an edge from it, and the file after it has its metrics
ErrorIsolatedWitness ==
    /\ pc = "done"
    /\ \E k \in 1..(Len(disk) - 1) :
          /\ disk[k].readable
          /\ disk[k].raises = STEP_METRICS
          /\ \E e \in dependency_graph.edges : e[1] = FileId(disk[k].path)
          /\ disk[k + 1].readable
          /\ disk[k + 1].raises = 0
          /\ FileId(disk[k + 1].path) \in DOMAIN metrics

(***************************************************************************)
(* The properties of the clusters.                                         *)
(***************************************************************************)
\* C10: after the classification every file of the registry has a cluster
\* id in 0..8, and on each axis the lower threshold is at most the upper.
EveryFileHasACluster ==
    pc = "done" =>
        /\ \A file_id \in FileIds(jsp_files) :
              /\ file_id \in DOMAIN metrics
              /\ "cluster" \in DOMAIN metrics[file_id]
              /\ metrics[file_id].cluster \in 0..8
        /\ thresholds # << >> =>
              \A axis \in 1..2 : thresholds[axis][1] <= thresholds[axis][2]

\* the files classified: those with a metrics entry
Classified == DOMAIN metrics

\* the thresholds of axis are both the largest value of field among the
\* classified files
ThresholdsAreTheMaximum(axis, field) ==
    /\ thresholds[axis][1] = thresholds[axis][2]
    /\ \A file_id \in Classified : metrics[file_id][field] * SCALE <= thresholds[axis][1]
    /\ \E file_id \in Classified : metrics[file_id][field] * SCALE = thresholds[axis][1]

\* a run classified one or two files
FewFiles == pc = "done" /\ Cardinality(Classified) \in 1..2

\* C11, as the code has it: when one or two files are classified, both
\* thresholds of each axis are the largest value of that axis, and every
\* file falls in the lowest bucket of each axis (index 0, every value being
\* at most the lower threshold): cluster id 0, labelled low and small.
FewFilesAllInLowestBucket ==
    FewFiles =>
        /\ ThresholdsAreTheMaximum(1, "lines")
        /\ ThresholdsAreTheMaximum(2, "jsp_complexity")
        /\ \A file_id \in Classified :
              /\ metrics[file_id].cluster = 0
              /\ metrics[file_id].cluster_label.num_prefix = 1
              /\ metrics[file_id].cluster_label.complexity = "low"
              /\ metrics[file_id].cluster_label.size = "small"

\* a finished run of two classified files that differ on both axes
FewFilesWitness ==
    /\ FewFiles
    /\ \E f, g \in Classified :
          /\ metrics[f].lines < metrics[g].lines
          /\ metrics[f].jsp_complexity # metrics[g].jsp_complexity
          /\ metrics[f].cluster = 0
          /\ metrics[g].cluster = 0

\* C11, as stated: when a run has at most 2 files, both thresholds of each
\* axis are the largest value of that axis and every file is in the top
\* bucket (index 2) of each axis, which is cluster id 8.
FewFilesAllInTopBucket ==
    FewFiles =>
        /\ ThresholdsAreTheMaximum(1, "lines")
        /\ ThresholdsAreTheMaximum(2, "jsp_complexity")
        /\ \A file_id \in Classified : metrics[file_id].cluster = 8

\* file_id was classified with these lines and this complexity, in hundredths
Measures(file_id, lines, complexity) ==
    /\ file_id \in Classified
    /\ metrics[file_id].lines = lines
    /\ metrics[file_id].jsp_complexity = complexity

\* the run classified exactly four files, of (lines, complexity) (10, 1),
\* (50, 1), (50, 5) and (200, 5)
ScenarioE ==
    /\ pc = "done"
    /\ Cardinality(Classified) = 4
    /\ \E f1, f2, f3, f4 \in Classified :
          /\ Cardinality({f1, f2, f3, f4}) = 4
          /\ Measures(f1, 10, 100)
          /\ Measures(f2, 50, 100)
          /\ Measures(f3, 50, 500)
          /\ Measures(f4, 200, 500)

\* C12: for four files of (lines, complexity) (10, 1), (50, 1), (50, 5) and
\* (200, 5) the thresholds are the 33.33rd and 66.66th percentiles by linear
\* interpolation, 49.996 and 50 for {10, 50, 50, 200}, 1 and 4.9992 for
\* {1, 1, 5, 5} (here times 10000, the complexity in hundredths), and the
\* file of (200, 5) gets cluster id 8, labelled high and large.
ScenarioEThresholdsAndCluster ==
    ScenarioE =>
        /\ thresholds = << << 499960, 500000 >>, << 1000000, 4999200 >> >>
        /\ \A file_id \in Classified :
              Measures(file_id, 200, 500) =>
                  /\ metrics[file_id].cluster = 8
                  /\ metrics[file_id].cluster_label.num_prefix = 9
                  /\ metrics[file_id].cluster_label.complexity = "high"
                  /\ metrics[file_id].cluster_label.size = "large"

\* a finished run of the four files of scenario E
ScenarioEWitness ==
    /\ ScenarioE
    /\ \E file_id \in Classified : Measures(file_id, 200, 500) /\ metrics[file_id].cluster = 8

(***************************************************************************)
(* The properties of a second run.                                         *)
(***************************************************************************)
\* C13: running the pipeline a second time on the same files gives the same
\* dependency graph, coupling metrics, complexity metrics and cluster
\* assignments as the first run, and the same log: nothing of the first run
\* carries over, also when the same analyzer is used again.
RerunGivesTheSameResults ==
    (pc = "done" /\ run >= 2) => Results = previous

(***************************************************************************)
(* The properties of the resolution of a reference.                        *)
(***************************************************************************)
\* the records the step appends to the log of origin
StepRecords(origin) ==
    SubSeq(Get(dependencies', origin), Len(LogOf(origin)) + 1,
           Len(Get(dependencies', origin)))

\* the text a record keeps of reference w, and the types a record of w has
RawOf(w) ==
    CASE w.kind = "include" -> w.item.target
      [] w.kind = "tag" -> << "<" >> \o w.item.prefix \o << ":" >> \o w.item.tag
      [] w.kind = "form" -> << >>

TypesOf(w) ==
    CASE w.kind = "include" -> {w.item.type}
      [] w.kind = "tag" -> {"custom_tag", "custom_tag_fallback"}
      [] w.kind = "form" -> {"form_action"}

\* the records the log already holds for the reference w
EarlierResults(w) ==
    {LogOf(w.file_id)[k] : k \in {j \in 1..Len(LogOf(w.file_id)) :
                                    /\ LogOf(w.file_id)[j].raw = RawOf(w)
                                    /\ LogOf(w.file_id)[j].type \in TypesOf(w)}}

\* C14: resolving a reference never changes the registry, and its result
\* depends on the reference and the registry only: a reference processed
\* again, after any other references and with the edges and records they
\* have produced, gets the record it got before, or none as before.
ResolutionIsPure ==
    [][AtReference =>
          /\ jsp_files' = jsp_files
          /\ facts' = facts
          /\ LET w == WorkList[cur]
             IN  (w.kind # "form" /\ \E k \in 1..(cur - 1) : WorkList[k] = w) =>
                    /\ StepRecords(w.file_id) = << >> <=> EarlierResults(w) = {}
                    /\ \A k \in 1..Len(StepRecords(w.file_id)) :
                          StepRecords(w.file_id)[k] \in EarlierResults(w)]_vars

\* a finished run where a file has two records of one resolved reference
ResolutionIsPureWitness ==
    /\ pc = "done"
    /\ \E origin \in DOMAIN dependencies :
          \E j, k \in 1..Len(dependencies[origin]) :
              /\ j < k
              /\ dependencies[origin][j] = dependencies[origin][k]
              /\ dependencies[origin][j].target # None
              /\ dependencies[origin][j].raw # << >>

\* the records processing w appends when the registry is files
RecordsIn(files, w) ==
    CASE w.kind = "include" -> IncludeRecords(files, w.file_id, w.item.type, w.item.target)
      [] w.kind = "form" -> FormRecords(files, w.item)
      [] w.kind = "tag" -> TagRecords(files, tag_libraries, w.file_id, w.item)

\* the file the reference w resolves to when the registry is files
TargetIn(files, w) ==
    IF RecordsIn(files, w) = << >> THEN None ELSE RecordsIn(files, w)[1].target

\* the registries holding the entries of files, in every insertion order
InsertionOrders(files) ==
    {order \in [1..Len(files) -> {files[k] : k \in 1..Len(files)}] :
        \A j, k \in 1..Len(files) : j # k => order[j] # order[k]}

\* C15: the registry is scanned in an order the set of files determines:
\* registered in any other order, the same files resolve every reference to
\* the same target.
ResolutionIgnoresInsertionOrder ==
    pc = "done" =>
        LET work == WorkList
        IN  \A order \in InsertionOrders(jsp_files) :
                \A k \in 1..Len(work) :
                    TargetIn(order, work[k]) = TargetIn(jsp_files, work[k])

\* the static directive includes of file_id whose target is the path of a
\* registered file
ExactPathIncludes(file_id) ==
    {inc \in {Get(includes, file_id)[k] : k \in 1..Len(Get(includes, file_id))} :
        /\ inc.type = "directive"
        /\ ~IsDynamic(inc.target)
        /\ inc.target \in PathsOf(jsp_files)}

\* C16: a static directive include whose target is exactly the path of a
\* registered file gives an edge to the file of that path, logged as a
\* directive include, whatever else is registered and in whatever order.
ExactPathIncludeReachesThatFile ==
    AfterBuild =>
        \A file_id \in FileIds(jsp_files) :
            \A inc \in ExactPathIncludes(file_id) :
                /\ << file_id, FileId(inc.target) >> \in dependency_graph.edges
                /\ \E k \in 1..Len(LogOf(file_id)) :
                      /\ LogOf(file_id)[k].type = "directive"
                      /\ LogOf(file_id)[k].target = FileId(inc.target)
                      /\ LogOf(file_id)[k].raw = inc.target

(***************************************************************************)
(* Scenario B: a usage of ui:button in a file declaring the prefix ui with *)
(* the uri /WEB-INF/tags/ui, a file registered at                          *)
(* WEB-INF/tags/ui/button.tag and no button.tag outside WEB-INF/tags.      *)
(***************************************************************************)
S_ui == << "u", "i" >>
S_button == << "b", "u", "t", "t", "o", "n" >>
S_ui_uri == WEB_INF_TAGS \o S_ui

ScenarioB(file_id) ==
    /\ \E k \in 1..Len(Get(custom_tags, file_id)) :
          Get(custom_tags, file_id)[k] = [prefix |-> S_ui, tag |-> S_button]
    /\ \E k \in 1..Len(Get(tag_libraries, file_id)) :
          Get(tag_libraries, file_id)[k] = [prefix |-> S_ui, uri |-> S_ui_uri]
    /\ S_button_tag \in PathsOf(jsp_files)
    /\ \A p \in PathsOf(jsp_files) :
          Basename(p) \in TagCandidates(S_button) => p = S_button_tag

ExternalForms(file_id) ==
    {Get(forms, file_id)[k] : k \in {j \in 1..Len(Get(forms, file_id)) :
                                       IsExternalAction(Get(forms, file_id)[j])}}

\* C18: a form whose action starts with javascript:, http: or https: adds
\* no edge and no record, whatever files are registered: the registry is
\* not searched for it.
ExternalFormActionIsSkipped ==
    [][(AtReference /\ WorkList[cur].kind = "form"
                    /\ IsExternalAction(WorkList[cur].item)) =>
          /\ dependency_graph' = dependency_graph
          /\ dependencies' = dependencies
          /\ cur' = cur + 1]_vars

\* the build has passed a form with an external action that a search of the
\* registry would have matched with a registered file
ExternalFormActionWitness ==
    /\ AfterBuild
    /\ \E file_id \in FileIds(jsp_files) :
          \E action \in ExternalForms(file_id) :
              FormMatch(jsp_files, action) # None

\* len(self.security_issues[file_id]): the security issues detected in file_id
SecurityIssueCount(file_id) ==
    IF file_id \in DOMAIN security_issues THEN security_issues[file_id] ELSE 0

\* the weighted sum of the components of m with n_security security issues,
\* rounded to 2 decimals, in hundredths
WeightedScore(m, n_security) ==
    Round2(300 * m.ast_complexity + 150 * m.scriptlet_count + 50 * m.el_total
             + 50 * m.jstl_total + 50 * m.custom_tag_count + 1 * m.html_elements
             + 100 * m.script_blocks + 150 * m.cyclomatic + 150 * n_security, 1000)

\* C19: the composite complexity of every file is the weighted sum of its
\* components, the last one being 0.15 times the number of security issues
\* detected in the file, rounded to 2 decimals.
CompositeCountsSecurityIssues ==
    pc # "analyze" =>
        \A file_id \in DOMAIN metrics :
            metrics[file_id].jsp_complexity =
                WeightedScore(metrics[file_id], SecurityIssueCount(file_id))

(***************************************************************************)
(* What the stages after the build write.                                  *)
(***************************************************************************)
\* the fields _calculate_file_metrics writes into the record of a file
ScorerFields == DOMAIN FileMetrics(NoText, 0, << >>, 0, << >>, 0, 0)

\* the fields calculate_coupling_metrics and compute_clusters_and_plot add
CouplingFields == {"in_degree", "out_degree", "total_coupling", "instability", "has_cyclic"}

ClusterFields == {"cluster", "cluster_label"}

\* a step of calculate_coupling_metrics or of compute_clusters_and_plot
LateStage == pc \in {"coupling", "clusters"}

Readable == {k \in 1..Len(disk) : disk[k].readable}

\* every file is registered, and scored unless its analysis raised
RegistryComplete ==
    /\ FileIds(jsp_files) = {FileId(disk[k].path) : k \in Readable}
    /\ \A k \in Readable :
          disk[k].raises = 0 =>
              /\ FileId(disk[k].path) \in DOMAIN metrics
              /\ ScorerFields \subseteq DOMAIN metrics[FileId(disk[k].path)]
              /\ FileId(disk[k].path) \in DOMAIN includes

\* nothing of the graph, the log, the coupling metrics or the clusters yet
NothingBuilt ==
    /\ dependency_graph = [nodes |-> {}, edges |-> {}]
    /\ dependencies = EmptyDict

NoCoupling ==
    /\ coupling_metrics = EmptyDict
    /\ \A file_id \in DOMAIN metrics : DOMAIN metrics[file_id] = ScorerFields

NoClusters ==
    /\ thresholds = << >>
    /\ \A file_id \in DOMAIN metrics : ClusterFields \cap DOMAIN metrics[file_id] = {}

\* the passes that hold whatever pass scores the complexity
StagesAreOrderedPasses ==
    /\ pc = "analyze" => NothingBuilt /\ NoCoupling /\ NoClusters
    /\ pc = "build" => RegistryComplete /\ NoCoupling /\ NoClusters
    /\ pc = "coupling" => /\ RegistryComplete
                          /\ cur = Len(WorkList) + 1
                          /\ NoCoupling /\ NoClusters
    /\ pc \in {"issues", "clusters"} =>
          /\ DOMAIN coupling_metrics = dependency_graph.nodes
          /\ NoClusters
    /\ pc = "done" =>
          /\ DOMAIN coupling_metrics = dependency_graph.nodes
          /\ \A file_id \in DOMAIN metrics :
                ScorerFields \cup ClusterFields \subseteq DOMAIN metrics[file_id]

ComponentOf(g, node) ==
    {other \in g.nodes : /\ other \in ReachedFrom(g.edges, {node})
                         /\ node \in ReachedFrom(g.edges, {other})}

\* node is in a component of more than one node, or has a self-loop
InCyclicComponent(g, node) ==
    \/ Cardinality(ComponentOf(g, node)) > 1
    \/ << node, node >> \in g.edges

\* C22: for every directed graph the nodes calculate_coupling_metrics flags,
\* those on a simple cycle, are the nodes in a strongly connected component
\* of more than one node or with a self-loop.
CyclicFlagIsComponentFlag ==
    pc = "issues" =>
        \A node \in dependency_graph.nodes :
            coupling_metrics[node].has_cyclic
                <=> InCyclicComponent(dependency_graph, node)

\* a graph with a cycle through every node but one, which points into the
\* cycle and has no flag
ComponentFlagWitness ==
    /\ pc = "issues"
    /\ \E outside \in dependency_graph.nodes :
          /\ ~coupling_metrics[outside].has_cyclic
          /\ \E e \in dependency_graph.edges : e[1] = outside
          /\ \A node \in dependency_graph.nodes \ {outside} :
                /\ coupling_metrics[node].has_cyclic
                /\ ComponentOf(dependency_graph, node) = dependency_graph.nodes \ {outside}
          /\ Cardinality(dependency_graph.nodes) >= 3

(***************************************************************************)
(* The cluster of a file.                                                  *)
(***************************************************************************)
\* index is the bucket of value between the thresholds lower and upper
IsBucketOf(index, value, lower, upper) ==
    /\ value * SCALE <= lower => index = 0
    /\ (value * SCALE > lower /\ value * SCALE <= upper) => index = 1
    /\ (value * SCALE > lower /\ value * SCALE > upper) => index = 2

\* C23: a value is bucketed 0 when it is at most the lower threshold of its
\* axis, 1 when it is at most the upper one, 2 otherwise; the cluster id is
\* the complexity bucket times 3 plus the size bucket, and the label holds
\* the descriptors of these two buckets and the prefix id + 1.
ClusterIsBucketsAndLabel ==
    pc = "done" =>
        \A file_id \in Classified :
            LET m == metrics[file_id]
                cx == m.cluster % 3
                cy == m.cluster \div 3
            IN  /\ m.cluster \in 0..8
                /\ IsBucketOf(cx, m.lines, thresholds[1][1], thresholds[1][2])
                /\ IsBucketOf(cy, m.jsp_complexity, thresholds[2][1], thresholds[2][2])
                /\ m.cluster_label.num_prefix = m.cluster + 1
                /\ m.cluster_label.complexity = << "low", "mid", "high" >>[cy + 1]
                /\ m.cluster_label.size = << "small", "mid", "large" >>[cx + 1]

\* a finished run with a file in each size bucket, one of them with a value
\* equal to the upper threshold, and files in two complexity buckets
ClusterWitness ==
    /\ pc = "done"
    /\ \A cx \in 0..2 : \E file_id \in Classified : metrics[file_id].cluster % 3 = cx
    /\ \E file_id \in Classified :
          /\ metrics[file_id].lines * SCALE = thresholds[1][2]
          /\ metrics[file_id].cluster % 3 = 1
    /\ \E f, g \in Classified :
          metrics[f].cluster \div 3 = 0 /\ metrics[g].cluster \div 3 = 2

(***************************************************************************)
(* The preference for the tag files under WEB-INF/tags.                    *)
(***************************************************************************)
S_WEB_INF_tags == LStrip(WEB_INF_TAGS, SLASH)

\* the registered files that match tagname by basename and lie under the
\* directory WEB-INF/tags, at the root of the project or below it
UnderTagDir(tagname) ==
    {p \in PathsOf(jsp_files) :
        /\ Basename(p) \in TagCandidates(tagname)
        /\ (StartsWith(p, S_WEB_INF_tags) \/ Contains(p, WEB_INF_TAGS))}

\* C24: a usage of a custom tag resolves to a matching file under
\* WEB-INF/tags when there is one, whatever matching files lie outside it
\* and whatever the order of the registry.
TagDirFileIsPreferred ==
    AfterBuild =>
        \A file_id \in DOMAIN custom_tags :
            \A k \in 1..Len(custom_tags[file_id]) :
                LET tagname == custom_tags[file_id][k].tag
                IN  UnderTagDir(tagname) # {} =>
                        \E p \in UnderTagDir(tagname) :
                            ResolveTagFile(jsp_files, tag_libraries, tagname, file_id)
                                = FileId(p)

(***************************************************************************)
(* A form action and an include of the same target.                        *)
(***************************************************************************)
\* the file an include of raw_target in file_id resolves to
IncludeTarget(files, file_id, raw_target) ==
    IF ExactMatch(files, file_id, raw_target) # None
    THEN ExactMatch(files, file_id, raw_target)
    ELSE BasenameFallback(files, raw_target)

\* the form actions of file_id the forms loop searches the registry for
SearchedForms(file_id) ==
    {Get(forms, file_id)[k] : k \in {j \in 1..Len(Get(forms, file_id)) :
                                       /\ Get(forms, file_id)[j] # << >>
                                       /\ ~IsExternalAction(Get(forms, file_id)[j])
                                       /\ ~IsDynamic(Get(forms, file_id)[j])}}

\* C25: a form action resolves to the file an include of the same target in
\* the same file resolves to, or both stay unresolved.
FormResolvesLikeInclude ==
    AfterBuild =>
        \A file_id \in FileIds(jsp_files) :
            \A action \in SearchedForms(file_id) :
                FormMatch(jsp_files, action) = IncludeTarget(jsp_files, file_id, action)

(***************************************************************************)
(* The cyclomatic complexity of a file.                                    *)
(***************************************************************************)
RECURSIVE SumOf(_)
SumOf(numbers) == IF numbers = << >> THEN 0 ELSE Head(numbers) + SumOf(Tail(numbers))

\* the sub-scores recorded for the scriptlets of file_id
SubScores(file_id) ==
    [k \in 1..Len(Get(scriptlets, file_id)) |-> Get(scriptlets, file_id)[k].complexity]

\* the JSTL usages of file_id named if, when, choose or forEach
BranchingJstl(file_id) ==
    {k \in 1..Len(Get(jstl_usage, file_id)) :
        \/ Get(jstl_usage, file_id)[k] = << "i", "f" >>
        \/ Get(jstl_usage, file_id)[k] = << "w", "h", "e", "n" >>
        \/ Get(jstl_usage, file_id)[k] = << "c", "h", "o", "o", "s", "e" >>
        \/ Get(jstl_usage, file_id)[k] = << "f", "o", "r", "E", "a", "c", "h" >>}

\* C26: the cyclomatic complexity of a file is 1, plus the sub-scores of its
\* scriptlets, plus one for each of its JSTL usages named if, when, choose
\* or forEach; a JSTL usage of another name adds nothing.
CyclomaticIsBasePlusBranches ==
    \A file_id \in DOMAIN metrics :
        metrics[file_id].cyclomatic =
            1 + SumOf(SubScores(file_id)) + Cardinality(BranchingJstl(file_id))

\* files are scored: one with a branching JSTL tag and a JSTL tag of another
\* name, one with scriptlets
CyclomaticWitness ==
    /\ \E file_id \in DOMAIN metrics :
          /\ BranchingJstl(file_id) # {}
          /\ Cardinality(BranchingJstl(file_id)) < Len(Get(jstl_usage, file_id))
          /\ metrics[file_id].cyclomatic = 2
    /\ \E file_id \in DOMAIN metrics :
          /\ Len(Get(scriptlets, file_id)) >= 2
          /\ metrics[file_id].cyclomatic > 1 + Len(Get(scriptlets, file_id))

(***************************************************************************)
(* The sub-score of a scriptlet.                                           *)
(***************************************************************************)
\* the brace depth after the first n braces, a closing brace at depth 0
\* being ignored
RECURSIVE DepthAfter(_, _)
DepthAfter(braces, n) ==
    IF n = 0 THEN 0
    ELSE IF braces[n] = "{" THEN DepthAfter(braces, n - 1) + 1
    ELSE IF DepthAfter(braces, n - 1) = 0 THEN 0
    ELSE DepthAfter(braces, n - 1) - 1

\* the largest depth reached
NestingDepth(braces) ==
    CHOOSE d \in 0..Len(braces) :
        /\ \E n \in 0..Len(braces) : DepthAfter(braces, n) = d
        /\ \A n \in 0..Len(braces) : DepthAfter(braces, n) <= d

\* the sub-score of a scriptlet with these counts and braces
SubScore(sc) ==
    LET sum == sc.decision + sc.logical + sc.ternary + NestingDepth(sc.braces) \div 2
    IN  IF sum <= 0 THEN 1 ELSE sum

\* the files whose scriptlets have been recorded
ScriptletsRecorded ==
    {k \in Readable : /\ Analyzed(k)
                      /\ (disk[k].raises = 0 \/ disk[k].raises > STEP_SCRIPTLETS)}

\* C27: every recorded scriptlet has a sub-score of at least 1: decisions
\* plus logical operators plus ternaries plus half the largest brace depth
\* (rounded down, the depth never going below 0), or 1 when that is 0; so
\* the cyclomatic complexity of a file is at least 1 plus the number of its
\* scriptlets.
SubScoreIsAtLeastOne ==
    /\ \A k \in ScriptletsRecorded :
          LET recorded == Get(scriptlets, FileId(disk[k].path))
              written == TextOf(disk[k].text).scriptlets
          IN  /\ Len(recorded) = Len(written)
              /\ \A j \in 1..Len(written) :
                    /\ recorded[j].complexity = SubScore(written[j])
                    /\ recorded[j].complexity >= 1
    /\ \A file_id \in DOMAIN metrics :
          metrics[file_id].cyclomatic >= 1 + Len(Get(scriptlets, file_id))

\* a scored file with a scriptlet that starts with an unmatched closing
\* brace, whose four opening braces give it the sub-score 2, and a scriptlet
\* without a decision or a brace, of sub-score 1
SubScoreWitness ==
    \E k \in ScriptletsRecorded :
        LET recorded == Get(scriptlets, FileId(disk[k].path))
            written == TextOf(disk[k].text).scriptlets
        IN  /\ FileId(disk[k].path) \in DOMAIN metrics
            /\ \E j \in 1..Len(written) :
                  /\ written[j].braces[1] = "}"
                  /\ NestingDepth(written[j].braces) = Len(written[j].braces) - 1
                  /\ recorded[j].complexity = 2
            /\ \E j \in 1..Len(written) :
                  /\ written[j].decision + written[j].logical + written[j].ternary = 0
                  /\ written[j].braces = << >>
                  /\ recorded[j].complexity = 1

(***************************************************************************)
(* The file name of the target of an include.                              *)
(***************************************************************************)
INCLUDE_TYPES == {"directive", "action", "c:import"}

\* the records of file_id for includes resolved to a file
ResolvedIncludes(file_id) ==
    {LogOf(file_id)[k] : k \in {j \in 1..Len(LogOf(file_id)) :
                                  /\ LogOf(file_id)[j].type \in INCLUDE_TYPES
                                  /\ ~LogOf(file_id)[j].dynamic
                                  /\ LogOf(file_id)[j].target # None}}

\* C28: an include resolves to a file whose basename is the basename of the
\* normalized target; a target without a basename, such as "/", resolves to
\* nothing.
IncludeKeepsTheFileName ==
    AfterBuild =>
        \A file_id \in DOMAIN dependencies :
            \A rec \in ResolvedIncludes(file_id) :
                /\ Basename(NormalizedTarget(rec.raw)) # << >>
                /\ Basename(PathOf(jsp_files, rec.target))
                      = Basename(NormalizedTarget(rec.raw))

(***************************************************************************)
(* The ids of the files.                                                   *)
(***************************************************************************)
\* the files analyze_file has registered
Registered == {k \in Readable : Analyzed(k)}

\* C29: files of distinct relative paths have distinct ids: each registered
\* file keeps its entry of the registry, and the custom tags recorded under
\* its id are its own.
DistinctFilesHaveDistinctIds ==
    /\ \A j, k \in Registered :
          j # k => FileId(disk[j].path) # FileId(disk[k].path)
    /\ \A k \in Registered :
          /\ disk[k].path \in PathsOf(jsp_files)
          /\ Get(custom_tags, FileId(disk[k].path))
                = ExtractCustomTags(TextOf(disk[k].text))

(***************************************************************************)
(* The include list of a file.                                             *)
(***************************************************************************)
\* the include occurrences of a text outside its comments
StaticOccurrences(text) == SelectSeq(text.incs, LAMBDA o : ~o.commented)

\* C30: each include occurrence of a file outside its comments is one entry
\* of the include list of the file, and counts for 1 in its total of
\* includes.
OneEntryPerInclude ==
    \A k \in Registered :
        disk[k].raises = 0 =>
            LET file_id == FileId(disk[k].path)
                occurrences == StaticOccurrences(TextOf(disk[k].text))
            IN  /\ Len(Get(includes, file_id)) = Len(occurrences)
                /\ metrics[file_id].total_includes = Len(occurrences)

=============================================================================
